---- MODULE Spec2Model ----
(***************************************************************************)
(* Othello rules engine: the board (pkg/model/board.go) and the game       *)
(* session (pkg/model game logic: Game, MakeMove, Pass, Reset).            *)
(*                                                                         *)
(* The state is one session: its Board (grid, side to move, piece counts), *)
(* History, GameOver, PassCount and Winner, plus `last`, the most recent   *)
(* call on the session and the error it returned.                          *)
(***************************************************************************)
EXTENDS Integers, Sequences, FiniteSets, TLC

----------------------------------------------------------------------------
(* Pieces (board.go: const Empty Piece = iota; Black; White) *)
Empty == 0
Black == 1
White == 2

(* size := 8 in NewBoard *)
BoardSize == 8

(* var Directions, in the order of the source *)
Directions ==
    << <<-1, -1>>, <<-1, 0>>, <<-1, 1>>,
       <<0, -1>>, <<0, 1>>,
       <<1, -1>>, <<1, 0>>, <<1, 1>> >>

(* Error values returned by the session's operations *)
ErrNil == "nil"
ErrGameOver == "game is already over"
ErrInvalidMove == "invalid move"
ErrCannotPass == "cannot pass when valid moves are available"

(* Position{Row: -1, Col: -1}: the pass sentinel of Game.Pass *)
PassPosition == [Row |-> -1, Col |-> -1]

----------------------------------------------------------------------------
(* Bounds of the exploration: the coordinates the callers hand to          *)
(* Game.MakeMove are the first MaxTargets cells of TargetOrder, plus the   *)
(* coordinates of BadInputs, which no board accepts.                       *)
MaxTargets == 12

TargetOrder ==
    << <<2, 3>>, <<2, 2>>, <<2, 1>>, <<1, 1>>, <<4, 5>>, <<2, 0>>, <<0, 0>>,
       <<0, 2>>, <<2, 4>>, <<2, 5>>, <<3, 5>>, <<5, 4>>, <<4, 2>>, <<2, 6>>,
       <<3, 2>>, <<5, 3>>, <<1, 3>>, <<0, 3>>, <<0, 4>>, <<5, 5>> >>

Min(a, b) == IF a < b THEN a ELSE b

Targets == { TargetOrder[i] : i \in 1..Min(MaxTargets, Len(TargetOrder)) }

BadInputs == { <<-1, -1>>, <<3, 8>>, <<8, 0>>, <<3, 3>> }

Inputs == Targets \cup BadInputs

(* every coordinate on the board and one step off it on each side *)
Coords == -1..BoardSize

----------------------------------------------------------------------------
(* Board *)

(* NewBoard with the colours of the four centre pieces exchanged *)
NewBoard_ColoursExchanged ==
    [ Cells |-> [i \in 0..(BoardSize - 1) |-> [j \in 0..(BoardSize - 1) |->
                    IF <<i, j>> \in {<<3, 3>>, <<4, 4>>} THEN Black
                    ELSE IF <<i, j>> \in {<<3, 4>>, <<4, 3>>} THEN White
                    ELSE Empty]],
      CurrentPlayer |-> Black,
      Size |-> BoardSize,
      BlackCnt |-> 2,
      WhiteCnt |-> 2 ]

NewBoard ==
    [ Cells |-> [i \in 0..(BoardSize - 1) |-> [j \in 0..(BoardSize - 1) |->
                    IF <<i, j>> \in {<<3, 3>>, <<4, 4>>} THEN White
                    ELSE IF <<i, j>> \in {<<3, 4>>, <<4, 3>>} THEN Black
                    ELSE Empty]],
      CurrentPlayer |-> Black,
      Size |-> BoardSize,
      BlackCnt |-> 2,
      WhiteCnt |-> 2 ]

IsValidPosition(b, row, col) ==
    row >= 0 /\ row < b.Size /\ col >= 0 /\ col < b.Size

getOpponent(b) == IF b.CurrentPlayer = Black THEN White ELSE Black

(* ScanForOwn without its test for an empty cell: the walk steps over gaps *)
RECURSIVE ScanForOwn_SkipsEmpty(_, _, _, _)
ScanForOwn_SkipsEmpty(b, r, c, dir) ==
    IF ~IsValidPosition(b, r, c) THEN FALSE
    ELSE IF b.Cells[r][c] = b.CurrentPlayer THEN TRUE
    ELSE ScanForOwn_SkipsEmpty(b, r + dir[1], c + dir[2], dir)

(* the inner loop of IsValidMove: walk from (r, c) in direction dir until  *)
(* an own piece (true), an empty cell or the edge (false)                  *)
RECURSIVE ScanForOwn(_, _, _, _)
ScanForOwn(b, r, c, dir) ==
    IF ~IsValidPosition(b, r, c) THEN FALSE
    ELSE IF b.Cells[r][c] = b.CurrentPlayer THEN TRUE
    ELSE IF b.Cells[r][c] = Empty THEN FALSE
    ELSE ScanForOwn(b, r + dir[1], c + dir[2], dir)

(* IsValidMove asking only for an opponent piece next to the cell *)
IsValidMove_AdjacentOnly(b, row, col) ==
    IF ~IsValidPosition(b, row, col) THEN FALSE
    ELSE IF b.Cells[row][col] # Empty THEN FALSE
    ELSE \E d \in 1..Len(Directions) :
            LET dir == Directions[d]
                r == row + dir[1]
                c == col + dir[2]
            IN  /\ IsValidPosition(b, r, c)
                /\ b.Cells[r][c] = getOpponent(b)

IsValidMove(b, row, col) ==
    IF ~IsValidPosition(b, row, col) THEN FALSE
    ELSE IF b.Cells[row][col] # Empty THEN FALSE
    ELSE \E d \in 1..Len(Directions) :
            LET dir == Directions[d]
                r == row + dir[1]
                c == col + dir[2]
            IN  /\ IsValidPosition(b, r, c)
                /\ b.Cells[r][c] = getOpponent(b)
                /\ ScanForOwn(b, r + dir[1], c + dir[2], dir)

(* the double loop with the column in the outer loop *)
RECURSIVE GetValidMovesFrom_ColumnMajor(_, _)
GetValidMovesFrom_ColumnMajor(b, k) ==
    IF k >= b.Size * b.Size THEN << >>
    ELSE LET i == k % b.Size
             j == k \div b.Size
         IN  (IF IsValidMove(b, i, j) THEN << [Row |-> i, Col |-> j] >> ELSE << >>)
                \o GetValidMovesFrom_ColumnMajor(b, k + 1)

(* GetValidMoves: the double loop over i, j, as one loop over k = i*Size+j *)
RECURSIVE GetValidMovesFrom(_, _)
GetValidMovesFrom(b, k) ==
    IF k >= b.Size * b.Size THEN << >>
    ELSE LET i == k \div b.Size
             j == k % b.Size
         IN  (IF IsValidMove(b, i, j) THEN << [Row |-> i, Col |-> j] >> ELSE << >>)
                \o GetValidMovesFrom(b, k + 1)

GetValidMoves(b) == GetValidMovesFrom(b, 0)

HasValidMove(b) == Len(GetValidMoves(b)) > 0

(* CollectRun with foundOwn set however the walk ends *)
RECURSIVE CollectRun_AlwaysFound(_, _, _, _, _)
CollectRun_AlwaysFound(b, r, c, dir, toFlip) ==
    IF ~IsValidPosition(b, r, c) THEN [foundOwn |-> TRUE, toFlip |-> toFlip]
    ELSE IF b.Cells[r][c] = Empty THEN [foundOwn |-> TRUE, toFlip |-> toFlip]
    ELSE IF b.Cells[r][c] = b.CurrentPlayer THEN [foundOwn |-> TRUE, toFlip |-> toFlip]
    ELSE CollectRun_AlwaysFound(b, r + dir[1], c + dir[2], dir,
                                Append(toFlip, [Row |-> r, Col |-> c]))

(* flipPieces, one direction: the run collected in toFlip and foundOwn *)
RECURSIVE CollectRun(_, _, _, _, _)
CollectRun(b, r, c, dir, toFlip) ==
    IF ~IsValidPosition(b, r, c) THEN [foundOwn |-> FALSE, toFlip |-> toFlip]
    ELSE IF b.Cells[r][c] = Empty THEN [foundOwn |-> FALSE, toFlip |-> toFlip]
    ELSE IF b.Cells[r][c] = b.CurrentPlayer THEN [foundOwn |-> TRUE, toFlip |-> toFlip]
    ELSE CollectRun(b, r + dir[1], c + dir[2], dir,
                    Append(toFlip, [Row |-> r, Col |-> c]))

(* the flip loop leaving the collected pieces as they are *)
SetCells_FlipsNothing(b, toFlip) == b

(* the cells of b with every position of toFlip set to the current player *)
SetCells(b, toFlip) ==
    [b EXCEPT !.Cells = [i \in 0..(b.Size - 1) |-> [j \in 0..(b.Size - 1) |->
        IF \E n \in 1..Len(toFlip) : toFlip[n] = [Row |-> i, Col |-> j]
        THEN b.CurrentPlayer ELSE b.Cells[i][j]]]]

(* flipPieces, the loop over Directions from index d on: the board is      *)
(* updated direction by direction, flipped counts the pieces turned        *)
RECURSIVE FlipFrom(_, _, _, _, _)
FlipFrom(b, row, col, d, flipped) ==
    IF d > Len(Directions) THEN [board |-> b, flipped |-> flipped]
    ELSE LET dir == Directions[d]
             r == row + dir[1]
             c == col + dir[2]
         IN  IF ~IsValidPosition(b, r, c) \/ b.Cells[r][c] # getOpponent(b)
             THEN FlipFrom(b, row, col, d + 1, flipped)
             ELSE LET run == CollectRun(b, r + dir[1], c + dir[2], dir,
                                        << [Row |-> r, Col |-> c] >>)
                  IN  IF run.foundOwn
                      THEN FlipFrom(SetCells(b, run.toFlip), row, col, d + 1,
                                    flipped + Len(run.toFlip))
                      ELSE FlipFrom(b, row, col, d + 1, flipped)

(* flipPieces crediting the mover without debiting the opponent *)
flipPieces_NoDebit(b, row, col) ==
    LET res == FlipFrom(b, row, col, 1, 0)
        nb == res.board
        flipped == res.flipped
    IN  IF nb.CurrentPlayer = Black
        THEN [nb EXCEPT !.BlackCnt = @ + flipped + 1]
        ELSE [nb EXCEPT !.WhiteCnt = @ + flipped + 1]

flipPieces(b, row, col) ==
    LET res == FlipFrom(b, row, col, 1, 0)
        nb == res.board
        flipped == res.flipped
    IN  IF nb.CurrentPlayer = Black
        THEN [nb EXCEPT !.BlackCnt = @ + flipped + 1, !.WhiteCnt = @ - flipped]
        ELSE [nb EXCEPT !.WhiteCnt = @ + flipped + 1, !.BlackCnt = @ - flipped]

(* Board.MakeMove placing the piece before it tests the move *)
BoardMakeMove_PlacesFirst(b, row, col) ==
    LET placed == IF IsValidPosition(b, row, col) /\ b.Cells[row][col] = Empty
                  THEN [b EXCEPT !.Cells[row][col] = b.CurrentPlayer]
                  ELSE b
    IN  IF ~IsValidMove(b, row, col) THEN [ok |-> FALSE, board |-> placed]
        ELSE LET turned == flipPieces(placed, row, col)
             IN  [ok |-> TRUE,
                  board |-> [turned EXCEPT !.CurrentPlayer = getOpponent(turned)]]

(* Board.MakeMove: the returned bool and the board after the call *)
BoardMakeMove(b, row, col) ==
    IF ~IsValidMove(b, row, col) THEN [ok |-> FALSE, board |-> b]
    ELSE LET placed == [b EXCEPT !.Cells[row][col] = b.CurrentPlayer]
             turned == flipPieces(placed, row, col)
         IN  [ok |-> TRUE,
              board |-> [turned EXCEPT !.CurrentPlayer = getOpponent(turned)]]

(* IsGameOver looking at the side to move only *)
IsGameOver_CurrentOnly(b) ==
    [ret |-> ~HasValidMove(b), board |-> b]

(* IsGameOver leaving the opponent as the side to move *)
IsGameOver_NoRestore(b) ==
    IF HasValidMove(b) THEN [ret |-> FALSE, board |-> b]
    ELSE LET swapped == [b EXCEPT !.CurrentPlayer = getOpponent(b)]
         IN  [ret |-> ~HasValidMove(swapped), board |-> swapped]

(* IsGameOver that never reports the end *)
IsGameOver_Never(b) ==
    [ret |-> FALSE, board |-> b]

(* Board.IsGameOver: the returned bool and the board after the call (the   *)
(* method switches CurrentPlayer to probe the opponent and restores it)    *)
IsGameOver(b) ==
    LET current == b.CurrentPlayer
    IN  IF HasValidMove(b) THEN [ret |-> FALSE, board |-> b]
        ELSE LET swapped == [b EXCEPT !.CurrentPlayer = getOpponent(b)]
                 opponentHasMove == HasValidMove(swapped)
                 restored == [swapped EXCEPT !.CurrentPlayer = current]
             IN  [ret |-> ~opponentHasMove, board |-> restored]

(* GetWinner with the comparison the wrong way round *)
GetWinner_Reversed(b) ==
    IF b.BlackCnt < b.WhiteCnt THEN Black
    ELSE IF b.WhiteCnt < b.BlackCnt THEN White
    ELSE Empty

GetWinner(b) ==
    IF b.BlackCnt > b.WhiteCnt THEN Black
    ELSE IF b.WhiteCnt > b.BlackCnt THEN White
    ELSE Empty

----------------------------------------------------------------------------
(* Boards as Go holds them: Cells is a slice of row slices, so a Board     *)
(* refers to its rows. `heap` is the sequence of allocated rows, a board   *)
(* on the heap names its rows by their index in it. `original` is a board  *)
(* made by NewBoard, `clone` the board Clone returned for it (NoBoard      *)
(* before the call).                                                       *)

VARIABLES heap, original, clone

(* The window of the graphical front end (gui.Game): the screen shown, the *)
(* mode chosen, the computer player, the cached list of valid moves and    *)
(* the two flags of the update loop. Its model.Game is the session below.  *)
VARIABLE gui

cvars == << heap, original, clone, gui >>

StateMainMenu == 0
StateGameMode == 1
StateColorSelect == 2
StateInGame == 3
StateGameOver == 4

ModeHumanVsHuman == 1
ModeHumanVsEasyAI == 2
ModeHumanVsMediumAI == 3
ModeHumanVsHardAI == 4

(* aiPlayer before any game against the computer: nil *)
NoPlayer == [Difficulty |-> "", Piece |-> Empty]

(* gui.NewGame(): the main menu, every other field at its zero value *)
GuiNewGame ==
    [gameState |-> StateMainMenu, gameMode |-> 0, aiPlayer |-> NoPlayer,
     validMoves |-> << >>, computerAction |-> FALSE, animating |-> FALSE]

NoBoard == [Size |-> 0]

(* moves applied to one board in the exploration of Clone *)
MaxBoardMoves == 3

(* the board value a heap board stands for *)
Deref(h, hb) ==
    [ Cells |-> [i \in 0..(hb.Size - 1) |-> h[hb.Cells[i]]],
      CurrentPlayer |-> hb.CurrentPlayer,
      Size |-> hb.Size,
      BlackCnt |-> hb.BlackCnt,
      WhiteCnt |-> hb.WhiteCnt ]

(* a fresh board value on the heap h: cells[i] = make([]Piece, size) *)
Alloc(h, b) ==
    [ heap |-> h \o [n \in 1..b.Size |-> b.Cells[n - 1]],
      board |-> [ Cells |-> [i \in 0..(b.Size - 1) |-> Len(h) + i + 1],
                  CurrentPlayer |-> b.CurrentPlayer,
                  Size |-> b.Size,
                  BlackCnt |-> b.BlackCnt,
                  WhiteCnt |-> b.WhiteCnt ] ]

(* the writes of a method that took the heap board hb to the value nb:     *)
(* the elements of hb's rows and hb's own fields                           *)
WriteBack(h, hb, nb) ==
    [ heap |-> [a \in 1..Len(h) |->
                    IF \E i \in 0..(hb.Size - 1) : hb.Cells[i] = a
                    THEN nb.Cells[CHOOSE i \in 0..(hb.Size - 1) : hb.Cells[i] = a]
                    ELSE h[a]],
      board |-> [hb EXCEPT !.CurrentPlayer = nb.CurrentPlayer,
                           !.BlackCnt = nb.BlackCnt,
                           !.WhiteCnt = nb.WhiteCnt] ]

(* Clone that copies the slice of rows, not the rows *)
Clone_SharesRows(h, hb) ==
    [ heap |-> h,
      board |-> [ Cells |-> hb.Cells,
                  CurrentPlayer |-> hb.CurrentPlayer,
                  Size |-> hb.Size,
                  BlackCnt |-> hb.BlackCnt,
                  WhiteCnt |-> hb.WhiteCnt ] ]

(* Board.Clone: the heap and the new board after the call *)
Clone(h, hb) ==
    LET newRows == [n \in 1..hb.Size |->
                        [j \in 0..(hb.Size - 1) |-> h[hb.Cells[n - 1]][j]]]
    IN  [ heap |-> h \o newRows,
          board |-> [ Cells |-> [i \in 0..(hb.Size - 1) |-> Len(h) + i + 1],
                      CurrentPlayer |-> hb.CurrentPlayer,
                      Size |-> hb.Size,
                      BlackCnt |-> hb.BlackCnt,
                      WhiteCnt |-> hb.WhiteCnt ] ]

MovesOn(h, hb) == hb.BlackCnt + hb.WhiteCnt - 4

HeapInit ==
    LET a == Alloc(<< >>, NewBoard)
    IN  /\ heap = a.heap
        /\ original = a.board
        /\ clone = NoBoard

----------------------------------------------------------------------------
(* Game session *)

VARIABLES Board, History, GameOver, PassCount, Winner, last

vars == << Board, History, GameOver, PassCount, Winner, last >>
session == << Board, History, GameOver, PassCount, Winner >>

Call(op, err) == [op |-> op, err |-> err]

(* NewGame; apart from the session, a board made by NewBoard *)
Init ==
    /\ Board = NewBoard
    /\ History = << >>
    /\ GameOver = FALSE
    /\ PassCount = 0
    /\ Winner = Empty
    /\ last = Call("NewGame", ErrNil)
    /\ HeapInit
    /\ gui = GuiNewGame

(* updateGameState ending the session on the count of passes alone *)
updateGameState_CountOnly(b, pc, over, winner) ==
    IF pc >= 2
    THEN [Board |-> b, GameOver |-> TRUE, Winner |-> GetWinner(b)]
    ELSE [Board |-> b, GameOver |-> over, Winner |-> winner]

(* updateGameState never ending the session *)
updateGameState_NeverOver(b, pc, over, winner) ==
    [Board |-> IsGameOver(b).board, GameOver |-> over, Winner |-> winner]

(* updateGameState ending the session on the first pass *)
updateGameState_OnePass(b, pc, over, winner) ==
    LET probe == IsGameOver(b)
    IN  IF probe.ret \/ pc >= 1
        THEN [Board |-> probe.board, GameOver |-> TRUE, Winner |-> GetWinner(probe.board)]
        ELSE [Board |-> probe.board, GameOver |-> over, Winner |-> winner]

(* updateGameState on a session whose board is b and pass count is pc:     *)
(* the Board, GameOver and Winner it leaves                                *)
updateGameState(b, pc, over, winner) ==
    LET probe == IsGameOver(b)
    IN  IF probe.ret \/ pc >= 2
        THEN [Board |-> probe.board, GameOver |-> TRUE, Winner |-> GetWinner(probe.board)]
        ELSE [Board |-> probe.board, GameOver |-> over, Winner |-> winner]

(* Game.MakeMove without the test of GameOver *)
GameMakeMove_NoOverTest(row, col) ==
    /\ LET res == BoardMakeMove(Board, row, col)
       IN  IF ~res.ok
           THEN /\ last' = Call("MakeMove", ErrInvalidMove)
                /\ Board' = res.board
                /\ UNCHANGED << History, GameOver, PassCount, Winner >>
           ELSE LET upd == updateGameState(res.board, 0, GameOver, Winner)
                IN  /\ History' = Append(History,
                           [Position |-> [Row |-> row, Col |-> col],
                            Piece |-> res.board.CurrentPlayer])
                    /\ PassCount' = 0
                    /\ Board' = upd.Board
                    /\ GameOver' = upd.GameOver
                    /\ Winner' = upd.Winner
                    /\ last' = Call("MakeMove", ErrNil)
    /\ UNCHANGED cvars

(* Game.MakeMove recording the move before the board has accepted it *)
GameMakeMove_RecordsFirst(row, col) ==
    /\ IF GameOver
       THEN /\ last' = Call("MakeMove", ErrGameOver)
            /\ UNCHANGED session
       ELSE LET res == BoardMakeMove(Board, row, col)
                hist == Append(History, [Position |-> [Row |-> row, Col |-> col],
                                         Piece |-> res.board.CurrentPlayer])
            IN  IF ~res.ok
                THEN /\ last' = Call("MakeMove", ErrInvalidMove)
                     /\ Board' = res.board
                     /\ History' = hist
                     /\ UNCHANGED << GameOver, PassCount, Winner >>
                ELSE LET upd == updateGameState(res.board, 0, GameOver, Winner)
                     IN  /\ History' = hist
                         /\ PassCount' = 0
                         /\ Board' = upd.Board
                         /\ GameOver' = upd.GameOver
                         /\ Winner' = upd.Winner
                         /\ last' = Call("MakeMove", ErrNil)
    /\ UNCHANGED cvars

(* Game.MakeMove putting the new entry at the front of History *)
GameMakeMove_Prepends(row, col) ==
    /\ IF GameOver
       THEN /\ last' = Call("MakeMove", ErrGameOver)
            /\ UNCHANGED session
       ELSE LET res == BoardMakeMove(Board, row, col)
            IN  IF ~res.ok
                THEN /\ last' = Call("MakeMove", ErrInvalidMove)
                     /\ Board' = res.board
                     /\ UNCHANGED << History, GameOver, PassCount, Winner >>
                ELSE LET upd == updateGameState(res.board, 0, GameOver, Winner)
                     IN  /\ History' = << [Position |-> [Row |-> row, Col |-> col],
                                           Piece |-> res.board.CurrentPlayer] >> \o History
                         /\ PassCount' = 0
                         /\ Board' = upd.Board
                         /\ GameOver' = upd.GameOver
                         /\ Winner' = upd.Winner
                         /\ last' = Call("MakeMove", ErrNil)
    /\ UNCHANGED cvars

(* Game.MakeMove(row, col) *)
GameMakeMove(row, col) ==
    /\ IF GameOver
       THEN /\ last' = Call("MakeMove", ErrGameOver)
            /\ UNCHANGED session
       ELSE LET res == BoardMakeMove(Board, row, col)
            IN  IF ~res.ok
                THEN /\ last' = Call("MakeMove", ErrInvalidMove)
                     /\ Board' = res.board
                     /\ UNCHANGED << History, GameOver, PassCount, Winner >>
                ELSE LET upd == updateGameState(res.board, 0, GameOver, Winner)
                     IN  /\ History' = Append(History,
                                [Position |-> [Row |-> row, Col |-> col],
                                 Piece |-> res.board.CurrentPlayer])
                         /\ PassCount' = 0
                         /\ Board' = upd.Board
                         /\ GameOver' = upd.GameOver
                         /\ Winner' = upd.Winner
                         /\ last' = Call("MakeMove", ErrNil)
    /\ UNCHANGED cvars

(* Game.Pass without the test for an available move *)
GamePass_NoMoveTest ==
    /\ IF GameOver
       THEN /\ last' = Call("Pass", ErrGameOver)
            /\ UNCHANGED session
       ELSE LET switched == [Board EXCEPT !.CurrentPlayer = getOpponent(Board)]
                upd == updateGameState(switched, PassCount + 1, GameOver, Winner)
            IN  /\ History' = Append(History,
                       [Position |-> PassPosition, Piece |-> Board.CurrentPlayer])
                /\ PassCount' = PassCount + 1
                /\ Board' = upd.Board
                /\ GameOver' = upd.GameOver
                /\ Winner' = upd.Winner
                /\ last' = Call("Pass", ErrNil)
    /\ UNCHANGED cvars

(* Game.Pass recording the piece after the turn has switched *)
GamePass_RecordsAfterSwitch ==
    /\ IF GameOver
       THEN /\ last' = Call("Pass", ErrGameOver)
            /\ UNCHANGED session
       ELSE IF HasValidMove(Board)
       THEN /\ last' = Call("Pass", ErrCannotPass)
            /\ UNCHANGED session
       ELSE LET switched == [Board EXCEPT !.CurrentPlayer = getOpponent(Board)]
                upd == updateGameState(switched, PassCount + 1, GameOver, Winner)
            IN  /\ History' = Append(History,
                       [Position |-> PassPosition, Piece |-> switched.CurrentPlayer])
                /\ PassCount' = PassCount + 1
                /\ Board' = upd.Board
                /\ GameOver' = upd.GameOver
                /\ Winner' = upd.Winner
                /\ last' = Call("Pass", ErrNil)
    /\ UNCHANGED cvars

(* Game.Pass leaving the turn with the side that passed *)
GamePass_KeepsTurn ==
    /\ IF GameOver
       THEN /\ last' = Call("Pass", ErrGameOver)
            /\ UNCHANGED session
       ELSE IF HasValidMove(Board)
       THEN /\ last' = Call("Pass", ErrCannotPass)
            /\ UNCHANGED session
       ELSE LET upd == updateGameState(Board, PassCount + 1, GameOver, Winner)
            IN  /\ History' = Append(History,
                       [Position |-> PassPosition, Piece |-> Board.CurrentPlayer])
                /\ PassCount' = PassCount + 1
                /\ Board' = upd.Board
                /\ GameOver' = upd.GameOver
                /\ Winner' = upd.Winner
                /\ last' = Call("Pass", ErrNil)
    /\ UNCHANGED cvars

(* Game.Pass() *)
GamePass ==
    /\ IF GameOver
       THEN /\ last' = Call("Pass", ErrGameOver)
            /\ UNCHANGED session
       ELSE IF HasValidMove(Board)
       THEN /\ last' = Call("Pass", ErrCannotPass)
            /\ UNCHANGED session
       ELSE LET switched == [Board EXCEPT !.CurrentPlayer = getOpponent(Board)]
                upd == updateGameState(switched, PassCount + 1, GameOver, Winner)
            IN  /\ History' = Append(History,
                       [Position |-> PassPosition, Piece |-> Board.CurrentPlayer])
                /\ PassCount' = PassCount + 1
                /\ Board' = upd.Board
                /\ GameOver' = upd.GameOver
                /\ Winner' = upd.Winner
                /\ last' = Call("Pass", ErrNil)
    /\ UNCHANGED cvars

(* Reset leaving the count of passes as it was *)
GameReset_KeepsPassCount ==
    /\ Board' = NewBoard
    /\ History' = << >>
    /\ GameOver' = FALSE
    /\ PassCount' = PassCount
    /\ Winner' = Empty
    /\ last' = Call("Reset", ErrNil)
    /\ UNCHANGED cvars

(* Game.Reset() *)
GameReset ==
    /\ Board' = NewBoard
    /\ History' = << >>
    /\ GameOver' = FALSE
    /\ PassCount' = 0
    /\ Winner' = Empty
    /\ last' = Call("Reset", ErrNil)
    /\ UNCHANGED cvars

Next ==
    \/ \E rc \in Inputs : GameMakeMove(rc[1], rc[2])
    \/ GamePass
    \/ GameReset

allvars == << vars, cvars >>

(* clone := original.Clone() *)
CallClone ==
    /\ clone = NoBoard
    /\ LET c == Clone(heap, original)
       IN  /\ heap' = c.heap
           /\ clone' = c.board
    /\ UNCHANGED << original, gui >>
    /\ UNCHANGED vars

(* original.MakeMove(row, col) *)
MoveOriginal(row, col) ==
    /\ MovesOn(heap, original) < MaxBoardMoves
    /\ LET res == BoardMakeMove(Deref(heap, original), row, col)
           w == WriteBack(heap, original, res.board)
       IN  /\ heap' = w.heap
           /\ original' = w.board
    /\ UNCHANGED << clone, gui >>
    /\ UNCHANGED vars

(* clone.MakeMove(row, col) *)
MoveClone(row, col) ==
    /\ clone # NoBoard
    /\ MovesOn(heap, clone) < MaxBoardMoves
    /\ LET res == BoardMakeMove(Deref(heap, clone), row, col)
           w == WriteBack(heap, clone, res.board)
       IN  /\ heap' = w.heap
           /\ clone' = w.board
    /\ UNCHANGED << original, gui >>
    /\ UNCHANGED vars

CloneNext ==
    \/ CallClone
    \/ \E rc \in Inputs : MoveOriginal(rc[1], rc[2])
    \/ \E rc \in Inputs : MoveClone(rc[1], rc[2])

(* the session alone: no board is cloned *)
Spec == Init /\ [][Next]_allvars

(* one board and its clone, each played on; the session stands still *)
SpecClone == Init /\ [][CloneNext]_allvars

----------------------------------------------------------------------------
(* Computer player (package ai). A Player is [Difficulty, Piece]; the       *)
(* board it is given is a board on the heap, and every operator returns    *)
(* the heap as the call leaves it.                                         *)

Easy == "easy"
Medium == "medium"
Hard == "hard"

MinInt32 == -2147483647 - 1
MaxInt32 == 2147483647

(* depth of the search below each candidate move of getHardMove *)
HardDepth == 4

weights ==
    << << 100, -20, 10,  5,  5, 10, -20, 100 >>,
       << -20, -50, -2, -2, -2, -2, -50, -20 >>,
       <<  10,  -2, -1, -1, -1, -1,  -2,  10 >>,
       <<   5,  -2, -1, -1, -1, -1,  -2,   5 >>,
       <<   5,  -2, -1, -1, -1, -1,  -2,   5 >>,
       <<  10,  -2, -1, -1, -1, -1,  -2,  10 >>,
       << -20, -50, -2, -2, -2, -2, -50, -20 >>,
       << 100, -20, 10,  5,  5, 10, -20, 100 >> >>

max(a, b) == IF a > b THEN a ELSE b

min(a, b) == IF a < b THEN a ELSE b

GetPiece(b, row, col) ==
    IF ~IsValidPosition(b, row, col) THEN Empty ELSE b.Cells[row][col]

RECURSIVE evaluateFrom(_, _, _)
(* evaluatePosition that leaves the other side's pieces out *)
evaluateFrom_OwnOnly(p, b, k) ==
    IF k = 64 THEN 0
    ELSE (IF GetPiece(b, k \div 8, k % 8) = p.Piece
          THEN weights[(k \div 8) + 1][(k % 8) + 1] ELSE 0)
         + evaluateFrom(p, b, k + 1)

(* the loop of evaluatePosition from cell number k on, row-major *)
evaluateFrom(p, b, k) ==
    IF k = 64 THEN 0
    ELSE LET i == k \div 8
             j == k % 8
             piece == GetPiece(b, i, j)
             term == IF piece = p.Piece THEN weights[i + 1][j + 1]
                     ELSE IF piece # Empty THEN 0 - weights[i + 1][j + 1]
                     ELSE 0
         IN  term + evaluateFrom(p, b, k + 1)

evaluatePosition(p, b) == evaluateFrom(p, b, 0)

(* the heap and the board after a method took the heap board hb to res.board *)
Written(h, hb, res) ==
    [ok |-> res.ok,
     heap |-> WriteBack(h, hb, res.board).heap,
     board |-> WriteBack(h, hb, res.board).board]

(* hb.MakeMove(row, col) for a board on the heap *)
HeapMakeMove(h, hb, row, col) ==
    Written(h, hb, BoardMakeMove(Deref(h, hb), row, col))

MakeMoveOn(c, move) == HeapMakeMove(c.heap, c.board, move.Row, move.Col)

(* boardCopy := board.Clone(); boardCopy.MakeMove(move.Row, move.Col) *)
MoveOnCopy(h, hb, move) == MakeMoveOn(Clone(h, hb), move)

(* p.evaluatePosition(m.board) for a board on the heap *)
evaluateOn(p, m) == evaluatePosition(p, Deref(m.heap, m.board))

(* the rows allocated beyond the first n are unreachable and collected *)
Collect(h, n) == SubSeq(h, 1, min(n, Len(h)))

NoMove(h, hb) == [Row |-> -1, Col |-> -1, heap |-> h, board |-> hb]

Chosen(move, h, hb) ==
    [Row |-> move.Row, Col |-> move.Col, heap |-> h, board |-> hb]

(* one outcome for each value rand.Intn(len(moves)) can return *)
RandomOf(moves, h, hb) ==
    IF Len(moves) = 0 THEN { NoMove(h, hb) }
    ELSE { Chosen(moves[n + 1], h, hb) : n \in 0..(Len(moves) - 1) }

getRandomMove(h, hb) == RandomOf(GetValidMoves(Deref(h, hb)), h, hb)

RECURSIVE MediumLoop(_, _, _, _, _, _, _)

(* if score > bestScore { bestScore = score; bestMove = move }, and on *)
MediumKeep_LastWins(p, h, hb, moves, k, bestScore, bestMove, score) ==
    IF score >= bestScore
    THEN MediumLoop(p, h, hb, moves, k + 1, score, moves[k])
    ELSE MediumLoop(p, h, hb, moves, k + 1, bestScore, bestMove)

MediumKeep(p, h, hb, moves, k, bestScore, bestMove, score) ==
    IF score > bestScore
    THEN MediumLoop(p, h, hb, moves, k + 1, score, moves[k])
    ELSE MediumLoop(p, h, hb, moves, k + 1, bestScore, bestMove)

(* the body of the loop for the k-th move, m the copy with the move made *)
MediumStep(p, h, hb, moves, k, bestScore, bestMove, m) ==
    MediumKeep(p, Collect(m.heap, Len(h)), hb, moves, k, bestScore, bestMove,
               evaluateOn(p, m))

(* the loop of getMediumMove from the k-th move on *)
MediumLoop(p, h, hb, moves, k, bestScore, bestMove) ==
    IF k > Len(moves) THEN Chosen(bestMove, h, hb)
    ELSE MediumStep(p, h, hb, moves, k, bestScore, bestMove,
                    MoveOnCopy(h, hb, moves[k]))

MediumOf(p, h, hb, moves) ==
    IF Len(moves) = 0 THEN NoMove(h, hb)
    ELSE MediumLoop(p, h, hb, moves, 1, MinInt32, [Row |-> 0, Col |-> 0])

(* getMediumMove that makes the first move on the board it was given *)
getMediumMove_NoCopy(p, h, hb) ==
    IF Len(GetValidMoves(Deref(h, hb))) = 0 THEN NoMove(h, hb)
    ELSE Chosen(GetValidMoves(Deref(h, hb))[1],
                MakeMoveOn([heap |-> h, board |-> hb],
                           GetValidMoves(Deref(h, hb))[1]).heap,
                hb)

getMediumMove(p, h, hb) == MediumOf(p, h, hb, GetValidMoves(Deref(h, hb)))

RECURSIVE minimax(_, _, _, _, _, _)
RECURSIVE MaxLoop(_, _, _, _, _, _, _, _, _)
RECURSIVE MinLoop(_, _, _, _, _, _, _, _, _)

(* a call of minimax as an observer sees it: the side to move on its board *)
(* and its maximizing argument                                             *)
Node(m, maximizing) == << m.board.CurrentPlayer, maximizing >>

(* the result res of a search, the calls `seen` added to those it made *)
Also(res, seen) == [res EXCEPT !.seen = @ \cup seen]

(* the maximizing loop breaking after its first move whatever the bounds *)
MaxStep_AlwaysCuts(p, h, hb, depth, alpha, beta, moves, k, maxScore, r) ==
    [score |-> max(maxScore, r.score), heap |-> Collect(r.heap, Len(h)),
     seen |-> r.seen]

(* maxScore = max(maxScore, score); alpha = max(alpha, score);             *)
(* if beta <= alpha { break }, r the result of the recursive call          *)
MaxStep(p, h, hb, depth, alpha, beta, moves, k, maxScore, r) ==
    IF beta <= max(alpha, r.score)
    THEN [score |-> max(maxScore, r.score), heap |-> Collect(r.heap, Len(h)),
          seen |-> r.seen]
    ELSE Also(MaxLoop(p, Collect(r.heap, Len(h)), hb, depth, max(alpha, r.score),
                      beta, moves, k + 1, max(maxScore, r.score)),
              r.seen)

(* the maximizing loop of minimax from the k-th move on *)
MaxLoop(p, h, hb, depth, alpha, beta, moves, k, maxScore) ==
    IF k > Len(moves) THEN [score |-> maxScore, heap |-> h, seen |-> {}]
    ELSE MaxStep(p, h, hb, depth, alpha, beta, moves, k, maxScore,
                 minimax(p, MoveOnCopy(h, hb, moves[k]), depth - 1,
                         alpha, beta, FALSE))

(* minScore = min(minScore, score); beta = min(beta, score);               *)
(* if beta <= alpha { break }, r the result of the recursive call          *)
MinStep(p, h, hb, depth, alpha, beta, moves, k, minScore, r) ==
    IF min(beta, r.score) <= alpha
    THEN [score |-> min(minScore, r.score), heap |-> Collect(r.heap, Len(h)),
          seen |-> r.seen]
    ELSE Also(MinLoop(p, Collect(r.heap, Len(h)), hb, depth, alpha,
                      min(beta, r.score), moves, k + 1, min(minScore, r.score)),
              r.seen)

(* the minimizing loop calling minimax with maximizing false again *)
MinLoop_StaysMinimizing(p, h, hb, depth, alpha, beta, moves, k, minScore) ==
    IF k > Len(moves) THEN [score |-> minScore, heap |-> h, seen |-> {}]
    ELSE MinStep(p, h, hb, depth, alpha, beta, moves, k, minScore,
                 minimax(p, MoveOnCopy(h, hb, moves[k]), depth - 1,
                         alpha, beta, FALSE))

(* the minimizing loop of minimax from the k-th move on *)
MinLoop(p, h, hb, depth, alpha, beta, moves, k, minScore) ==
    IF k > Len(moves) THEN [score |-> minScore, heap |-> h, seen |-> {}]
    ELSE MinStep(p, h, hb, depth, alpha, beta, moves, k, minScore,
                 minimax(p, MoveOnCopy(h, hb, moves[k]), depth - 1,
                         alpha, beta, TRUE))

(* minimax going on through a pass when the side to move has no move *)
Search_ThroughPass(p, m, depth, alpha, beta, maximizing, moves) ==
    IF Len(moves) = 0
    THEN Also(minimax(p, [m EXCEPT !.board.CurrentPlayer =
                                      IF @ = Black THEN White ELSE Black],
                      depth - 1, alpha, beta, ~maximizing),
              { Node(m, maximizing) })
    ELSE IF maximizing
    THEN Also(MaxLoop(p, m.heap, m.board, depth, alpha, beta, moves, 1, MinInt32),
              { Node(m, maximizing) })
    ELSE Also(MinLoop(p, m.heap, m.board, depth, alpha, beta, moves, 1, MaxInt32),
              { Node(m, maximizing) })

(* minimax below the test of IsGameOver, m the board as that call left it *)
Search(p, m, depth, alpha, beta, maximizing, moves) ==
    IF Len(moves) = 0
    THEN [score |-> evaluateOn(p, m), heap |-> m.heap,
          seen |-> { Node(m, maximizing) }]
    ELSE IF maximizing
    THEN Also(MaxLoop(p, m.heap, m.board, depth, alpha, beta, moves, 1, MinInt32),
              { Node(m, maximizing) })
    ELSE Also(MinLoop(p, m.heap, m.board, depth, alpha, beta, moves, 1, MaxInt32),
              { Node(m, maximizing) })

(* minimax after board.IsGameOver() returned over.ret and left the board   *)
(* as m has it                                                             *)
AfterOverTest(p, m, depth, alpha, beta, maximizing, over) ==
    IF over.ret
    THEN [score |-> evaluateOn(p, m), heap |-> m.heap,
          seen |-> { Node(m, maximizing) }]
    ELSE Search(p, m, depth, alpha, beta, maximizing,
                GetValidMoves(Deref(m.heap, m.board)))

(* board.IsGameOver() for a board on the heap *)
OverTest(p, m, depth, alpha, beta, maximizing, over) ==
    AfterOverTest(p, WriteBack(m.heap, m.board, over.board), depth, alpha,
                  beta, maximizing, over)

(* Player.minimax on the board m.board of the heap m.heap *)
minimax(p, m, depth, alpha, beta, maximizing) ==
    IF depth = 0
    THEN [score |-> evaluateOn(p, m), heap |-> m.heap,
          seen |-> { Node(m, maximizing) }]
    ELSE OverTest(p, m, depth, alpha, beta, maximizing,
                  IsGameOver(Deref(m.heap, m.board)))

RECURSIVE HardLoop(_, _, _, _, _, _, _)

HardKeep(p, h, hb, moves, k, bestScore, bestMove, r) ==
    IF r.score > bestScore
    THEN HardLoop(p, Collect(r.heap, Len(h)), hb, moves, k + 1, r.score, moves[k])
    ELSE HardLoop(p, Collect(r.heap, Len(h)), hb, moves, k + 1, bestScore, bestMove)

(* getHardMove searching one ply less below each candidate move *)
HardLoop_OnePlyLess(p, h, hb, moves, k, bestScore, bestMove) ==
    IF k > Len(moves) THEN Chosen(bestMove, h, hb)
    ELSE HardKeep(p, h, hb, moves, k, bestScore, bestMove,
                  minimax(p, MoveOnCopy(h, hb, moves[k]), HardDepth - 1,
                          MinInt32, MaxInt32, FALSE))

(* the loop of getHardMove from the k-th move on *)
HardLoop(p, h, hb, moves, k, bestScore, bestMove) ==
    IF k > Len(moves) THEN Chosen(bestMove, h, hb)
    ELSE HardKeep(p, h, hb, moves, k, bestScore, bestMove,
                  minimax(p, MoveOnCopy(h, hb, moves[k]), HardDepth,
                          MinInt32, MaxInt32, FALSE))

HardOf(p, h, hb, moves) ==
    IF Len(moves) = 0 THEN NoMove(h, hb)
    ELSE HardLoop(p, h, hb, moves, 1, MinInt32, [Row |-> 0, Col |-> 0])

getHardMove(p, h, hb) == HardOf(p, h, hb, GetValidMoves(Deref(h, hb)))

(* GetMove whose Hard tier draws one of the legal moves *)
GetMove_HardDraws(p, h, hb) ==
    CASE p.Difficulty = Easy -> getRandomMove(h, hb)
      [] p.Difficulty = Medium -> { getMediumMove(p, h, hb) }
      [] p.Difficulty = Hard -> getRandomMove(h, hb)
      [] OTHER -> getRandomMove(h, hb)

(* GetMove whose default case returns no move *)
GetMove_DefaultNoMove(p, h, hb) ==
    CASE p.Difficulty = Easy -> getRandomMove(h, hb)
      [] p.Difficulty = Medium -> { getMediumMove(p, h, hb) }
      [] p.Difficulty = Hard -> { getHardMove(p, h, hb) }
      [] OTHER -> { NoMove(h, hb) }

(* Player.GetMove: the set of outcomes the call can have *)
GetMove(p, h, hb) ==
    CASE p.Difficulty = Easy -> getRandomMove(h, hb)
      [] p.Difficulty = Medium -> { getMediumMove(p, h, hb) }
      [] p.Difficulty = Hard -> { getHardMove(p, h, hb) }
      [] OTHER -> getRandomMove(h, hb)

(* A session in which the computer player is consulted. The game is played *)
(* along the fixed line Opening into the endgame and freely from there on; *)
(* between two operations of the session GetMove is called at most once,   *)
(* the Hard tier only on boards with at most MaxHardEmpties empty cells.   *)

Opening ==
    << <<4,5>>, <<5,5>>, <<6,5>>, <<4,6>>, <<4,7>>, <<5,3>>, <<4,2>>, <<3,5>>,
       <<2,2>>, <<5,2>>, <<6,3>>, <<5,4>>, <<2,5>>, <<3,1>>, <<6,2>>, <<3,2>>,
       <<5,1>>, <<5,6>>, <<3,0>>, <<1,1>>, <<6,6>>, <<2,1>>, <<0,0>>, <<2,4>>,
       <<1,5>>, <<7,3>>, <<2,3>>, <<4,1>>, <<5,0>>, <<2,6>>, <<1,4>>, <<6,0>>,
       <<2,0>>, <<3,6>>, <<7,0>>, <<0,6>>, <<7,4>>, <<1,2>>, <<0,1>>, <<7,7>>,
       <<1,6>>, <<7,5>>, <<4,0>>, <<2,7>>, <<6,4>>, <<7,2>>, <<7,1>>, <<6,7>>,
       <<3,7>>, <<0,2>>, <<0,3>>, <<5,7>>, <<6,1>>, <<0,4>>, <<0,5>> >>

MaxHardEmpties == 5

Difficulties == { Easy, Medium, Hard, "expert" }

(* the cells Opening leaves empty, and the inputs that are no placement *)
LateInputs ==
    { rc \in (0..7) \X (0..7) :
        /\ NewBoard.Cells[rc[1]][rc[2]] = Empty
        /\ \A k \in 1..Len(Opening) : Opening[k] # rc } \cup BadInputs

Empties(b) == b.Size * b.Size - b.BlackCnt - b.WhiteCnt

ScriptedMove ==
    /\ Len(History) < Len(Opening)
    /\ GameMakeMove(Opening[Len(History) + 1][1], Opening[Len(History) + 1][2])

FreeMove(row, col) ==
    /\ Len(History) >= Len(Opening)
    /\ GameMakeMove(row, col)

(* row, col, err := aiPlayer.GetMove(game.Board) *)
AIGetMove(difficulty, piece) ==
    /\ last.op # "GetMove"
    /\ difficulty = Hard => Empties(Board) <= MaxHardEmpties
    /\ \E r \in GetMove([Difficulty |-> difficulty, Piece |-> piece],
                       Alloc(<< >>, Board).heap, Alloc(<< >>, Board).board) :
              /\ Board' = Deref(r.heap, r.board)
              /\ last' = [op |-> "GetMove", err |-> ErrNil,
                          Row |-> r.Row, Col |-> r.Col,
                          Difficulty |-> difficulty, Piece |-> piece]
    /\ UNCHANGED << History, GameOver, PassCount, Winner >>
    /\ UNCHANGED cvars

AINext ==
    \/ ScriptedMove
    \/ \E rc \in LateInputs : FreeMove(rc[1], rc[2])
    \/ GamePass
    \/ GameReset
    \/ \E d \in Difficulties, piece \in {Black, White} : AIGetMove(d, piece)

SpecAI == Init /\ [][AINext]_allvars

(* a game played to its end: the calls of Game.MakeMove and Game.Pass of   *)
(* one session, no Reset                                                   *)
PlayNext ==
    \/ ScriptedMove
    \/ \E rc \in LateInputs : FreeMove(rc[1], rc[2])
    \/ GamePass

(* the entries a call can append to History *)
Moves == [Position : [Row : -1..(BoardSize - 1), Col : -1..(BoardSize - 1)],
          Piece : {Black, White}]

(* a call succeeds in a session that is not over: History grows by an entry *)
Advance == ~GameOver /\ \E move \in Moves : History' = Append(History, move)

(* the players go on calling until the session is over *)
SpecPlay == Init /\ [][PlayNext]_allvars /\ WF_History(Advance)

----------------------------------------------------------------------------
(* Move notation (FormatMove, ParseMove). A Go string is the sequence of   *)
(* its characters, each a string of length one; Printable lists the        *)
(* characters with codes 32 to 126 in the order of their codes (the double *)
(* quote, the backslash and the backquote by their names).                 *)

Printable ==
    << " ", "!", "dquote", "#", "$", "%", "&", "'", "(", ")", "*", "+",
       ",", "-", ".", "/", "0", "1", "2", "3", "4", "5", "6", "7",
       "8", "9", ":", ";", "<", "=", ">", "?", "@", "A", "B", "C",
       "D", "E", "F", "G", "H", "I", "J", "K", "L", "M", "N", "O",
       "P", "Q", "R", "S", "T", "U", "V", "W", "X", "Y", "Z", "[",
       "backslash", "]", "^", "_", "backquote", "a", "b", "c", "d", "e", "f", "g",
       "h", "i", "j", "k", "l", "m", "n", "o", "p", "q", "r", "s",
       "t", "u", "v", "w", "x", "y", "z", "{", "|", "}", "~" >>

Ord(ch) == 31 + (CHOOSE n \in 1..Len(Printable) : Printable[n] = ch)

Chr(code) == Printable[code - 31]

ErrInvalidFormat == "invalid move format"
ErrInvalidColumn == "invalid column"
ErrOutOfBounds == "position out of bounds"

RECURSIVE Decimal(_)
(* the digits fmt writes for %d and n >= 0 *)
Decimal(n) ==
    IF n < 10 THEN << Chr(Ord("0") + n) >>
    ELSE Decimal(n \div 10) \o << Chr(Ord("0") + (n % 10)) >>

(* FormatMove writing the row as it is indexed *)
FormatMove_RowFromZero(row, col) ==
    IF row < 0 \/ col < 0 THEN << "P", "a", "s", "s" >>
    ELSE << Chr(Ord("A") + col) >> \o Decimal(row)

FormatMove(row, col) ==
    IF row < 0 \/ col < 0 THEN << "P", "a", "s", "s" >>
    ELSE << Chr(Ord("A") + col) >> \o Decimal(row + 1)

IsDigit(ch) == Ord(ch) >= Ord("0") /\ Ord(ch) <= Ord("9")

RECURSIVE SkipSpace(_)
SkipSpace(str) ==
    IF Len(str) > 0 /\ Head(str) = " " THEN SkipSpace(Tail(str)) ELSE str

RECURSIVE ScanDigits(_, _, _)
(* the number the leading digits of str denote, after the digits read so   *)
(* far denote acc; any is whether a digit has been read                    *)
ScanDigits(str, acc, any) ==
    IF Len(str) > 0 /\ IsDigit(Head(str))
    THEN ScanDigits(Tail(str), acc * 10 + (Ord(Head(str)) - Ord("0")), TRUE)
    ELSE [ok |-> any, value |-> acc]

(* what the digits after an optional sign give *)
ScanSigned(str) ==
    IF Len(str) > 0 /\ Head(str) = "-"
    THEN [ok |-> ScanDigits(Tail(str), 0, FALSE).ok,
          value |-> 0 - ScanDigits(Tail(str), 0, FALSE).value]
    ELSE IF Len(str) > 0 /\ Head(str) = "+"
    THEN ScanDigits(Tail(str), 0, FALSE)
    ELSE ScanDigits(str, 0, FALSE)

(* fmt.Sscanf(str, "%d", &row) with row = init before the call: the value  *)
(* of row after it. Spaces before the number are skipped, what follows the *)
(* digits is not read, and row keeps its value when no number is there.    *)
Sscanf(str, init) ==
    IF ScanSigned(SkipSpace(str)).ok
    THEN ScanSigned(SkipSpace(str)).value
    ELSE init

(* the column of ParseMove for the character code c, -1 for none *)
ColumnOf(c) ==
    IF c >= Ord("a") /\ c <= Ord("h") THEN c - Ord("a")
    ELSE IF c >= Ord("A") /\ c <= Ord("H") THEN c - Ord("A")
    ELSE -1

(* ParseMove after the column has been read *)
ParseRow(move, col, row) ==
    IF row < 0 \/ row >= 8 \/ col < 0 \/ col >= 8
    THEN [row |-> -1, col |-> -1, err |-> ErrOutOfBounds]
    ELSE [row |-> row, col |-> col, err |-> ErrNil]

ParseMove(move) ==
    IF Len(move) < 2
    THEN [row |-> -1, col |-> -1, err |-> ErrInvalidFormat]
    ELSE IF move \in { << "p", "a", "s", "s" >>, << "P", "a", "s", "s" >>,
                       << "P", "A", "S", "S" >> }
    THEN [row |-> -1, col |-> -1, err |-> ErrNil]
    ELSE IF ColumnOf(Ord(move[1])) = -1
    THEN [row |-> -1, col |-> -1, err |-> ErrInvalidColumn]
    ELSE ParseRow(move, ColumnOf(Ord(move[1])), Sscanf(Tail(move), -1) - 1)

(* FormatMove is called with rows and columns from -2 to MaxFormatArg *)
MaxFormatArg == 9

(* the word pass in every mix of upper and lower case *)
PassSpellings ==
    { << a, b, c, d >> : a \in {"p", "P"}, b \in {"a", "A"},
                         c \in {"s", "S"}, d \in {"s", "S"} }

(* strings given to ParseMove that FormatMove does not write *)
OtherTokens ==
    { <<  >>,
      << "E" >>,
      << "e", "4" >>,
      << "h", "8" >>,
      << "E", "0" >>,
      << "E", "9" >>,
      << "I", "4" >>,
      << "i", "4" >>,
      << "E", "4", "x" >>,
      << "E", " ", "4" >>,
      << "E", "+", "4" >>,
      << "E", "-", "4" >>,
      << "E", "1", "2" >>,
      << "E", "0", "4" >>,
      << "4", "E" >>,
      << "E", "x" >>,
      << "p", "a", "s", "s", "s" >>,
      << "p", "a" >>,
      << "P", "a", "s", "s", " " >>,
      << "@", "1" >>,
      << "backquote", "1" >>,
      << "[", "1" >>,
      << "{", "1" >> }

CallFormatMove(row, col) ==
    /\ last' = [op |-> "FormatMove", row |-> row, col |-> col,
                ret |-> FormatMove(row, col)]
    /\ UNCHANGED session
    /\ UNCHANGED cvars

CallParseMove(move) ==
    /\ last' = [op |-> "ParseMove", move |-> move,
                row |-> ParseMove(move).row, col |-> ParseMove(move).col,
                err |-> ParseMove(move).err]
    /\ UNCHANGED session
    /\ UNCHANGED cvars

(* row, col, err := ParseMove(FormatMove(row, col)) *)
ParseFormatted ==
    /\ last.op = "FormatMove"
    /\ CallParseMove(last.ret)

NotationNext ==
    \/ \E row \in -2..MaxFormatArg, col \in -2..MaxFormatArg : CallFormatMove(row, col)
    \/ \E move \in PassSpellings \cup OtherTokens : CallParseMove(move)
    \/ ParseFormatted

SpecNotation == Init /\ [][NotationNext]_allvars

----------------------------------------------------------------------------
(* The graphical front end (gui.Game). Ebiten calls Update once per frame;  *)
(* a frame reads the clock where the code reads it (has the animation time  *)
(* elapsed, has the computer's delay elapsed) and the mouse in              *)
(* handlePlayerInput (the cell under a press, or NoPress: no press, or a    *)
(* press outside the board). A handler yields the set of its outcomes, one  *)
(* for each value read. The window's model.Game is the session; a handler's *)
(* calls on it are composed from MakeMoveOf and PassOf, Game.MakeMove and   *)
(* Game.Pass as functions of the game.                                      *)

boards == << heap, original, clone >>

othelloGame ==
    [Board |-> Board, History |-> History, GameOver |-> GameOver,
     PassCount |-> PassCount, Winner |-> Winner]

NewGame ==
    [Board |-> NewBoard, History |-> << >>, GameOver |-> FALSE,
     PassCount |-> 0, Winner |-> Empty]

(* g.MakeMove(row, col): the game after the call, and its error *)
MakeMoveOf(g, row, col) ==
    IF g.GameOver THEN [game |-> g, err |-> ErrGameOver]
    ELSE LET res == BoardMakeMove(g.Board, row, col)
             upd == updateGameState(res.board, 0, g.GameOver, g.Winner)
         IN  IF ~res.ok
             THEN [game |-> [g EXCEPT !.Board = res.board], err |-> ErrInvalidMove]
             ELSE [game |->
                     [Board |-> upd.Board,
                      History |-> Append(g.History,
                         [Position |-> [Row |-> row, Col |-> col],
                          Piece |-> res.board.CurrentPlayer]),
                      GameOver |-> upd.GameOver,
                      PassCount |-> 0,
                      Winner |-> upd.Winner],
                   err |-> ErrNil]

(* g.Pass(): the game after the call, and its error *)
PassOf(g) ==
    IF g.GameOver THEN [game |-> g, err |-> ErrGameOver]
    ELSE IF HasValidMove(g.Board) THEN [game |-> g, err |-> ErrCannotPass]
    ELSE LET switched == [g.Board EXCEPT !.CurrentPlayer = getOpponent(g.Board)]
             upd == updateGameState(switched, g.PassCount + 1, g.GameOver, g.Winner)
         IN  [game |->
                [Board |-> upd.Board,
                 History |-> Append(g.History,
                    [Position |-> PassPosition, Piece |-> g.Board.CurrentPlayer]),
                 GameOver |-> upd.GameOver,
                 PassCount |-> g.PassCount + 1,
                 Winner |-> upd.Winner],
              err |-> ErrNil]

(* what a handler leaves behind: the window, the game, the last call made *)
Idle(a, g) == [gui |-> a, game |-> g, last |-> last]

(* g.othelloGame.Pass(); g.validMoves = g.othelloGame.GetValidMoves() *)
Passed(a, p) ==
    [gui |-> [a EXCEPT !.validMoves = GetValidMoves(p.game.Board)],
     game |-> p.game,
     last |-> Call("Pass", p.err)]

(* makeComputerMove from err = g.othelloGame.MakeMove(row, col) on *)
ComputerMoved(a, m) ==
    [gui |-> [a EXCEPT !.animating = (m.err = ErrNil) \/ a.animating,
                       !.validMoves = GetValidMoves(m.game.Board)],
     game |-> m.game,
     last |-> Call("MakeMove", m.err)]

isComputerTurn(a, g) ==
    /\ a.gameMode # ModeHumanVsHuman
    /\ g.Board.CurrentPlayer = a.aiPlayer.Piece

(* makeComputerMove: one outcome for each move GetMove can return; GetMove *)
(* returns no error, so its error branch is never taken                    *)
makeComputerMove(a, g) ==
    IF ~HasValidMove(g.Board) THEN { Passed(a, PassOf(g)) }
    ELSE { ComputerMoved(a, MakeMoveOf([g EXCEPT !.Board = Deref(r.heap, r.board)],
                                       r.Row, r.Col)) :
              r \in GetMove(a.aiPlayer, Alloc(<< >>, g.Board).heap,
                            Alloc(<< >>, g.Board).board) }

NoPress == << -1, -1 >>

(* handleBoardClick after a successful MakeMove *)
ClickMoved(a, g) ==
    IF ~HasValidMove(g.Board) /\ ~g.GameOver
    THEN Passed([a EXCEPT !.animating = TRUE], PassOf(g))
    ELSE [gui |-> [a EXCEPT !.animating = TRUE,
                            !.validMoves = GetValidMoves(g.Board)],
          game |-> g,
          last |-> Call("MakeMove", ErrNil)]

Clicked(a, m) ==
    IF m.err # ErrNil
    THEN [gui |-> a, game |-> m.game, last |-> Call("MakeMove", m.err)]
    ELSE ClickMoved(a, m.game)

(* handlePlayerInput with handleBoardClick: the selected cell is the cell  *)
(* under the mouse                                                         *)
handlePlayerInput(a, g, click) ==
    IF click[1] < 0 \/ click[2] < 0 THEN Idle(a, g)
    ELSE IF \A i \in 1..Len(a.validMoves) :
                a.validMoves[i] # [Row |-> click[1], Col |-> click[2]]
    THEN Idle(a, g)
    ELSE Clicked(a, MakeMoveOf(g, click[1], click[2]))

(* updateGame from the test of isComputerTurn on *)
TakeTurn(a, g, presses) ==
    IF isComputerTurn(a, g)
    THEN IF ~a.computerAction THEN { Idle([a EXCEPT !.computerAction = TRUE], g) }
         ELSE { Idle(a, g) } \cup
              { [o EXCEPT !.gui.computerAction = FALSE] : o \in makeComputerMove(a, g) }
    ELSE { handlePlayerInput(a, g, click) : click \in presses }

(* updateGame; presses are the values the mouse can give in this frame *)
updateGame(a, g, presses) ==
    IF g.GameOver THEN { Idle([a EXCEPT !.gameState = StateGameOver], g) }
    ELSE IF a.animating
    THEN { Idle(a, g) } \cup TakeTurn([a EXCEPT !.animating = FALSE], g, presses)
    ELSE TakeTurn(a, g, presses)

DifficultyOf(mode) ==
    CASE mode = ModeHumanVsEasyAI -> Easy
      [] mode = ModeHumanVsMediumAI -> Medium
      [] mode = ModeHumanVsHardAI -> Hard
      [] OTHER -> ""

Started(a) == [gui |-> a, game |-> NewGame, last |-> Call("NewGame", ErrNil)]

(* initializeGame from the creation of the computer player on *)
WithComputer(a, humanColor) ==
    IF humanColor = White
    THEN makeComputerMove(
            [a EXCEPT !.aiPlayer = [Difficulty |-> DifficultyOf(a.gameMode),
                                    Piece |-> Black]], NewGame)
    ELSE { Started([a EXCEPT !.aiPlayer = [Difficulty |-> DifficultyOf(a.gameMode),
                                           Piece |-> White]]) }

initializeGame(a, humanColor) ==
    IF a.gameMode = ModeHumanVsHuman
    THEN { Started([a EXCEPT !.gameState = StateInGame,
                             !.validMoves = GetValidMoves(NewBoard),
                             !.computerAction = FALSE,
                             !.animating = FALSE]) }
    ELSE WithComputer([a EXCEPT !.gameState = StateInGame,
                                !.validMoves = GetValidMoves(NewBoard),
                                !.computerAction = FALSE,
                                !.animating = FALSE], humanColor)

(* the state a handler leaves becomes the next state *)
Show(out) ==
    /\ gui' = out.gui
    /\ Board' = out.game.Board
    /\ History' = out.game.History
    /\ GameOver' = out.game.GameOver
    /\ PassCount' = out.game.PassCount
    /\ Winner' = out.game.Winner
    /\ last' = out.last
    /\ UNCHANGED boards

(* Update with the escape key just pressed *)
PressEscape ==
    /\ gui.gameState # StateMainMenu
    /\ gui' = [gui EXCEPT !.gameState = StateMainMenu]
    /\ UNCHANGED vars
    /\ UNCHANGED boards

(* updateMainMenu with a click on the start button *)
ClickStart ==
    /\ gui.gameState = StateMainMenu
    /\ gui' = [gui EXCEPT !.gameState = StateGameMode]
    /\ UNCHANGED vars
    /\ UNCHANGED boards

(* updateGameMode with a click on the button of a mode: startGame(mode) *)
ClickMode(mode) ==
    /\ gui.gameState = StateGameMode
    /\ IF mode # ModeHumanVsHuman
       THEN /\ gui' = [gui EXCEPT !.gameMode = mode, !.gameState = StateColorSelect]
            /\ UNCHANGED vars
            /\ UNCHANGED boards
       ELSE \E out \in initializeGame([gui EXCEPT !.gameMode = mode], Black) :
               Show(out)

(* updateColorSelect with a click on the black or the white piece *)
ClickColor(humanColor) ==
    /\ gui.gameState = StateColorSelect
    /\ \E out \in initializeGame(gui, humanColor) : Show(out)

(* Update in StateInGame *)
UpdateGame(presses) ==
    /\ gui.gameState = StateInGame
    /\ \E out \in updateGame(gui, othelloGame, presses) : Show(out)

(* updateGameOver with a click on the menu button *)
ClickMenu ==
    /\ gui.gameState = StateGameOver
    /\ gui' = [gui EXCEPT !.gameState = StateMainMenu]
    /\ UNCHANGED vars
    /\ UNCHANGED boards

(* The cells the human presses are the first MaxClicks of ClickOrder, and   *)
(* the modes chosen are those of GuiModes.                                  *)
MaxClicks == 8

ClickOrder ==
    << <<4,2>>, <<2,4>>, <<5,3>>, <<2,2>>, <<7,4>>, <<6,2>>, <<2,6>>, <<6,1>>,
       <<2,3>>, <<3,2>>, <<2,5>>, <<3,5>>, <<5,5>>, <<4,0>>, <<2,1>> >>

Clicks == { ClickOrder[i] : i \in 1..MaxClicks }

GuiModes == { ModeHumanVsHuman, ModeHumanVsMediumAI }

(* a frame without a press on the board *)
Tick == UpdateGame({NoPress})

GuiNext ==
    \/ PressEscape
    \/ ClickStart
    \/ \E mode \in GuiModes : ClickMode(mode)
    \/ \E humanColor \in {Black, White} : ClickColor(humanColor)
    \/ UpdateGame(Clicks \cup {NoPress})
    \/ ClickMenu

(* the computer's move is due once its delay has elapsed *)
ComputerDue ==
    /\ gui.gameState = StateInGame
    /\ ~GameOver
    /\ ~gui.animating
    /\ isComputerTurn(gui, othelloGame)
    /\ gui.computerAction

(* Frames follow one another and the clock advances: a frame without a     *)
(* press that changes the state is not put off forever. For the frame that *)
(* makes the computer's move, which is enabled whenever that move is due   *)
(* and ends with computerAction false, this is stated in the equivalent    *)
(* form that the move is not due forever. Nothing obliges the human to     *)
(* press a button.                                                         *)
SpecGUI ==
    /\ Init
    /\ [][GuiNext]_allvars
    /\ WF_allvars(~ComputerDue /\ Tick)
    /\ []<>~ComputerDue

(* drawHistoryPanel: what the panel lists for a History, row by row. A row *)
(* is its move number and the texts drawn under the headers "Black" and    *)
(* "White", each with the index (from 0) of the entry it was made from     *)
maxMoves == 16

NoText == [index |-> -1, moveStr |-> << >>]

(* moveStr of the entry at index i (from 0) *)
MoveText(history, i) ==
    LET move == history[i + 1]
    IN  [index |-> i,
         moveStr |-> IF move.Position.Row >= 0
                     THEN FormatMove(move.Position.Row, move.Position.Col)
                     ELSE << "P", "a", "s", "s" >>]

(* the loop for i := startMove; i < moveCount; i += 2 *)
RECURSIVE HistoryRows(_, _, _)
HistoryRows(history, i, moveNum) ==
    IF i >= Len(history) THEN << >>
    ELSE << [moveNum |-> moveNum,
             Black |-> MoveText(history, i),
             White |-> IF i + 1 < Len(history)
                       THEN MoveText(history, i + 1) ELSE NoText] >>
         \o HistoryRows(history, i + 2, moveNum + 1)

drawHistoryPanel(history) ==
    LET moveCount == Len(history)
        startMove == IF moveCount > maxMoves THEN moveCount - maxMoves ELSE 0
    IN  IF moveCount > 0
        THEN HistoryRows(history, startMove, startMove \div 2 + 1)
        ELSE << >>

----------------------------------------------------------------------------
(* Vocabulary of the properties: the rules of the game stated directly,    *)
(* without the scanning loops of the code.                                 *)

OnBoard(row, col) == row \in 0..7 /\ col \in 0..7

Other(p) == IF p = Black THEN White ELSE Black

EightDirections == { d \in {-1, 0, 1} \X {-1, 0, 1} : d # <<0, 0>> }

(* from (row, col) in direction d: n >= 1 pieces of Other(p), then one of p *)
Bracketed(cells, p, row, col, d, n) ==
    /\ \A k \in 1..n :
          /\ OnBoard(row + k * d[1], col + k * d[2])
          /\ cells[row + k * d[1]][col + k * d[2]] = Other(p)
    /\ OnBoard(row + (n + 1) * d[1], col + (n + 1) * d[2])
    /\ cells[row + (n + 1) * d[1]][col + (n + 1) * d[2]] = p

LegalFor(cells, p, row, col) ==
    /\ OnBoard(row, col)
    /\ cells[row][col] = Empty
    /\ \E d \in EightDirections : \E n \in 1..6 : Bracketed(cells, p, row, col, d, n)

(* the cells a move of p at (row, col) turns: those of its bracketed runs *)
Turned(cells, p, row, col) ==
    UNION { { <<row + k * d[1], col + k * d[2]>> : k \in 1..n } :
            <<d, n>> \in { dn \in EightDirections \X (1..6) :
                            Bracketed(cells, p, row, col, dn[1], dn[2]) } }

HasLegal(cells, p) == \E r \in 0..7 : \E c \in 0..7 : LegalFor(cells, p, r, c)

CountOf(cells, p) == Cardinality({ rc \in (0..7) \X (0..7) : cells[rc[1]][rc[2]] = p })

AsPlayer(b, p) == [b EXCEPT !.CurrentPlayer = p]

----------------------------------------------------------------------------
(* C1: on every board, for either side to move and every (row, col) on or  *)
(* off the board, IsValidMove is true exactly when the coordinate is on    *)
(* the board, the cell is Empty and some direction holds a run of opponent *)
(* pieces, starting next to the cell, closed by a piece of the mover.      *)
C1_IsValidMoveIffBracketed ==
    \A p \in {Black, White} : \A row \in Coords : \A col \in Coords :
        IsValidMove(AsPlayer(Board, p), row, col)
            <=> LegalFor(Board.Cells, p, row, col)

(* a board with a legal move closing a run of two or more, and an empty    *)
(* cell next to an opponent piece that is not a legal move                 *)
C1_Witness ==
    /\ \E row \in 0..7 : \E col \in 0..7 : \E d \in EightDirections : \E n \in 2..6 :
          /\ IsValidMove(Board, row, col)
          /\ Board.Cells[row][col] = Empty
          /\ Bracketed(Board.Cells, Board.CurrentPlayer, row, col, d, n)
    /\ \E row \in 0..7 : \E col \in 0..7 : \E d \in EightDirections :
          /\ ~IsValidMove(Board, row, col)
          /\ Board.Cells[row][col] = Empty
          /\ OnBoard(row + d[1], col + d[2])
          /\ Board.Cells[row + d[1]][col + d[2]] = Other(Board.CurrentPlayer)

(* C2: a Board.MakeMove that returns true sets the cell to the mover's     *)
(* colour, turns exactly the opponent pieces of the bracketed runs, leaves *)
(* every other cell as it was and hands the turn to the opponent.          *)
C2_MakeMovePlacesAndFlips ==
    \A row \in Coords : \A col \in Coords :
        LET res == BoardMakeMove(Board, row, col)
            mover == Board.CurrentPlayer
            turned == Turned(Board.Cells, mover, row, col)
        IN  res.ok =>
              /\ OnBoard(row, col)
              /\ res.board.Cells =
                    [r \in 0..7 |-> [c \in 0..7 |->
                        IF <<r, c>> = <<row, col>> THEN mover
                        ELSE IF <<r, c>> \in turned THEN mover
                        ELSE Board.Cells[r][c]]]
              /\ res.board.CurrentPlayer = Other(mover)

(* a move has just been made that turned pieces in two directions *)
C2_Witness ==
    /\ last = [op |-> "MakeMove", err |-> ErrNil]
    /\ LET mv == History[Len(History)].Position
           mover == Other(Board.CurrentPlayer)
       IN  \E d1 \in EightDirections : \E d2 \in EightDirections :
              /\ d1 # d2
              /\ \A d \in {d1, d2} :
                    /\ OnBoard(mv.Row + 2 * d[1], mv.Col + 2 * d[2])
                    /\ Board.Cells[mv.Row + d[1]][mv.Col + d[2]] = mover
                    /\ Board.Cells[mv.Row + 2 * d[1]][mv.Col + 2 * d[2]] = mover
              /\ Board.BlackCnt + Board.WhiteCnt = 4 + Len(History)
              /\ (IF mover = Black THEN Board.BlackCnt ELSE Board.WhiteCnt) >= 5

(* C3: Board.MakeMove on a target that is off the board, occupied or       *)
(* brackets no opponent run returns false and leaves the grid, BlackCnt,   *)
(* WhiteCnt and CurrentPlayer as they were.                                *)
C3_IllegalMakeMoveNoChange ==
    \A row \in Coords : \A col \in Coords :
        ~LegalFor(Board.Cells, Board.CurrentPlayer, row, col) =>
            LET res == BoardMakeMove(Board, row, col)
            IN  /\ res.ok = FALSE
                /\ res.board.Cells = Board.Cells
                /\ res.board.BlackCnt = Board.BlackCnt
                /\ res.board.WhiteCnt = Board.WhiteCnt
                /\ res.board.CurrentPlayer = Board.CurrentPlayer

(* Board.MakeMove has just returned false *)
C3_Witness == last = [op |-> "MakeMove", err |-> ErrInvalidMove]

(* C4: in every reachable session state BlackCnt is the number of Black    *)
(* cells and WhiteCnt the number of White cells (so the two counts and the *)
(* number of Empty cells add up to 64), and every successful MakeMove      *)
(* raises BlackCnt + WhiteCnt by exactly 1.                                *)
CountsMatchGrid ==
    /\ Board.BlackCnt = CountOf(Board.Cells, Black)
    /\ Board.WhiteCnt = CountOf(Board.Cells, White)
    /\ Board.BlackCnt + Board.WhiteCnt + CountOf(Board.Cells, Empty) = 64

C4_CountsMatchGrid ==
    /\ []CountsMatchGrid
    /\ [][(last'.op = "MakeMove" /\ last'.err = ErrNil) =>
            Board'.BlackCnt + Board'.WhiteCnt = Board.BlackCnt + Board.WhiteCnt + 1]_vars

(* a move that turned two or more pieces has been made, and a pass *)
C4_Witness ==
    /\ last = [op |-> "MakeMove", err |-> ErrNil]
    /\ \E i \in 1..Len(History) : History[i].Position = PassPosition
    /\ Board.BlackCnt + Board.WhiteCnt = 4 + Len(History) - 1
    /\ Board.WhiteCnt >= 1 /\ Board.BlackCnt >= 6

(* C5: in every reachable session state GameOver is true exactly when      *)
(* neither Black nor White has a legal move, or PassCount >= 2.            *)
C5_GameOverIffNoMoves ==
    GameOver <=>
        \/ ~HasLegal(Board.Cells, Black) /\ ~HasLegal(Board.Cells, White)
        \/ PassCount >= 2

(* a move has just ended the session: neither side can move *)
C5_Witness ==
    /\ GameOver
    /\ ~HasLegal(Board.Cells, Black) /\ ~HasLegal(Board.Cells, White)
    /\ last = [op |-> "MakeMove", err |-> ErrNil]
    /\ PassCount = 0

(* C6: Winner is Empty while GameOver is false; once GameOver is true      *)
(* Winner is Black if BlackCnt > WhiteCnt, White if WhiteCnt > BlackCnt,   *)
(* Empty on a tie.                                                         *)
C6_WinnerByCount ==
    /\ ~GameOver => Winner = Empty
    /\ GameOver =>
          /\ Board.BlackCnt > Board.WhiteCnt => Winner = Black
          /\ Board.WhiteCnt > Board.BlackCnt => Winner = White
          /\ Board.BlackCnt = Board.WhiteCnt => Winner = Empty

(* a finished session that Black has won *)
C6_Witness == GameOver /\ Winner = Black /\ Board.BlackCnt > Board.WhiteCnt

(* C7: once GameOver is true every Game.MakeMove and Game.Pass fails with  *)
(* the already-over error and leaves Board, History, PassCount, GameOver   *)
(* and Winner unchanged; GameOver stays true until Reset is called.        *)
C7_OverIsFinal ==
    [][GameOver =>
        /\ last'.op \in {"MakeMove", "Pass"} =>
              /\ last'.err = ErrGameOver
              /\ UNCHANGED session
        /\ ~GameOver' => last'.op = "Reset"]_vars

(* a call was refused because the session is over *)
C7_Witness == GameOver /\ last.err = ErrGameOver

(* C8: on a session that is not over, Game.MakeMove with a target the      *)
(* board rejects (off the board, occupied, bracketing nothing) returns the *)
(* invalid-move error and leaves Board, History, PassCount, GameOver and   *)
(* Winner unchanged.                                                       *)
C8_RejectedMoveNoChange ==
    [][\A rc \in Inputs :
        ( /\ ~GameOver
          /\ ~LegalFor(Board.Cells, Board.CurrentPlayer, rc[1], rc[2])
          /\ GameMakeMove(rc[1], rc[2]) )
        => /\ last'.err = ErrInvalidMove
           /\ UNCHANGED session]_vars

(* a move was rejected in a running game that has moves behind it *)
C8_Witness ==
    /\ ~GameOver
    /\ Len(History) >= 2
    /\ last = [op |-> "MakeMove", err |-> ErrInvalidMove]

(* C9: on a session that is not over, Game.Pass fails with the             *)
(* move-available error whenever the side to move has a legal move, and    *)
(* then leaves Board, History, PassCount, GameOver and Winner unchanged.   *)
C9_PassRefusedWhenMoveAvailable ==
    [][( /\ ~GameOver
         /\ HasLegal(Board.Cells, Board.CurrentPlayer)
         /\ last'.op = "Pass" )
       => /\ last'.err = ErrCannotPass
          /\ UNCHANGED session]_vars

(* a pass was refused *)
C9_Witness == ~GameOver /\ last = [op |-> "Pass", err |-> ErrCannotPass]

(* C10: a successful Game.Pass appends exactly one history entry with      *)
(* Position (-1, -1) and the Piece of the side that passed, raises         *)
(* PassCount by 1, hands the turn to the opponent and leaves every cell,   *)
(* BlackCnt and WhiteCnt unchanged.                                        *)
C10_PassEffect ==
    [][(last'.op = "Pass" /\ last'.err = ErrNil) =>
        /\ History' = Append(History, [Position |-> [Row |-> -1, Col |-> -1],
                                       Piece |-> Board.CurrentPlayer])
        /\ PassCount' = PassCount + 1
        /\ Board'.CurrentPlayer = Other(Board.CurrentPlayer)
        /\ Board'.Cells = Board.Cells
        /\ Board'.BlackCnt = Board.BlackCnt
        /\ Board'.WhiteCnt = Board.WhiteCnt]_vars

(* a pass has just succeeded *)
C10_Witness ==
    /\ last = [op |-> "Pass", err |-> ErrNil]
    /\ History[Len(History)].Position = PassPosition
    /\ PassCount = 1

(* C11: the history entry appended by a successful Game.MakeMove(row, col) *)
(* carries Position (row, col) and the Piece of the player who made the    *)
(* move, the side that was CurrentPlayer immediately before the call.      *)
C11_MoveRecordsMover ==
    [][\A rc \in Inputs :
        (GameMakeMove(rc[1], rc[2]) /\ last'.err = ErrNil)
        => /\ Len(History') = Len(History) + 1
           /\ History'[Len(History')] =
                 [Position |-> [Row |-> rc[1], Col |-> rc[2]],
                  Piece |-> Board.CurrentPlayer]]_vars

LastIsPass == Len(History) > 0 /\ History[Len(History)].Position = PassPosition

(* the side to move is stuck while the opponent is not, in a running game *)
MustPass ==
    /\ ~GameOver
    /\ ~HasLegal(Board.Cells, Board.CurrentPlayer)
    /\ HasLegal(Board.Cells, Other(Board.CurrentPlayer))

(* C12: from any reachable session state in which both sides pass          *)
(* consecutively (two successful passes, no successful move between them)  *)
(* the session is terminal with PassCount >= 2 and Winner by piece count.  *)
(* The statement is an implication whose premise C12_NoDoublePass shows to *)
(* hold in no reachable state.                                             *)
C12_DoublePassTerminal ==
    ( /\ Len(History) >= 2
      /\ History[Len(History)].Position = PassPosition
      /\ History[Len(History) - 1].Position = PassPosition )
    => /\ GameOver
       /\ PassCount >= 2
       /\ Winner = GetWinner(Board)

C12_NoDoublePass ==
    /\ PassCount <= 1
    /\ \A i \in 1..(Len(History) - 1) :
          ~(History[i].Position = PassPosition /\ History[i + 1].Position = PassPosition)

(* C13: in a running session where the side to move has no legal move and *)
(* the opponent has one, Game.MakeMove is rejected with the invalid-move   *)
(* error for every (row, col), and Game.Pass succeeds, after which the     *)
(* opponent is to move, PassCount is 1 and the session is still running.   *)
C13_StuckSideMustPass ==
    /\ [](MustPass => \A row \in Coords : \A col \in Coords :
                          ~BoardMakeMove(Board, row, col).ok)
    /\ [][MustPass =>
            /\ last'.op = "MakeMove" =>
                  /\ last'.err = ErrInvalidMove
                  /\ UNCHANGED session
            /\ last'.op = "Pass" =>
                  /\ last'.err = ErrNil
                  /\ Board'.CurrentPlayer = Other(Board.CurrentPlayer)
                  /\ PassCount' = 1
                  /\ ~GameOver']_vars

(* the stuck side has passed and the game goes on with the opponent *)
C13_Witness ==
    /\ last = [op |-> "Pass", err |-> ErrNil]
    /\ LastIsPass
    /\ ~GameOver
    /\ PassCount = 1
    /\ HasLegal(Board.Cells, Board.CurrentPlayer)
    /\ ~HasLegal(Board.Cells, Other(Board.CurrentPlayer))

(* C14, as claimed: in every running session the side to move has a legal  *)
(* move or the most recent history entry is a pass.                        *)
C14_MoveOrJustPassed ==
    ~GameOver => HasLegal(Board.Cells, Board.CurrentPlayer) \/ LastIsPass

(* C14, amended: in every running session the side to move has a legal     *)
(* move, or the most recent history entry is a pass, or the side to move   *)
(* has none while the opponent has one (it must then pass: the session     *)
(* neither ends nor passes by itself).                                     *)
C14_MoveOrPassOrMustPass ==
    ~GameOver =>
        \/ HasLegal(Board.Cells, Board.CurrentPlayer)
        \/ LastIsPass
        \/ HasLegal(Board.Cells, Other(Board.CurrentPlayer))

(* a placement has left the side to move without a legal move *)
C14_Witness ==
    /\ MustPass
    /\ Len(History) > 0
    /\ ~LastIsPass

(* C15: History is append-only: every successful Game.MakeMove or          *)
(* Game.Pass makes it one entry longer and keeps the earlier entries in    *)
(* place, every failed call leaves it unchanged, only Reset empties it.    *)
C15_HistoryAppendOnly ==
    [][/\ (last'.op \in {"MakeMove", "Pass"} /\ last'.err = ErrNil) =>
              /\ Len(History') = Len(History) + 1
              /\ SubSeq(History', 1, Len(History)) = History
       /\ (last'.op \in {"MakeMove", "Pass"} /\ last'.err # ErrNil) =>
              History' = History
       /\ Len(History') < Len(History) =>
              /\ last'.op = "Reset"
              /\ History' = << >>]_vars

(* a history of placements and a pass, in play order *)
C15_Witness ==
    /\ Len(History) >= 9
    /\ History[1].Position = [Row |-> 2, Col |-> 3]
    /\ \E i \in 2..(Len(History) - 1) : History[i].Position = PassPosition
    /\ last.err = ErrNil

(* C16: Board.IsGameOver leaves CurrentPlayer, every cell, BlackCnt and    *)
(* WhiteCnt as they were, whatever it returns, and returns true exactly    *)
(* when neither the side to move nor the opponent has a legal move.        *)
C16_IsGameOverReadOnly ==
    \A p \in {Black, White} :
        LET b == AsPlayer(Board, p)
            res == IsGameOver(b)
        IN  /\ res.board.CurrentPlayer = p
            /\ res.board.Cells = Board.Cells
            /\ res.board.BlackCnt = Board.BlackCnt
            /\ res.board.WhiteCnt = Board.WhiteCnt
            /\ res.ret <=> (~HasLegal(Board.Cells, p) /\ ~HasLegal(Board.Cells, Other(p)))

(* IsGameOver has probed the opponent and returned false: a move was made, *)
(* the side to move is stuck, the session goes on                          *)
C16_Witness ==
    /\ last = [op |-> "MakeMove", err |-> ErrNil]
    /\ ~HasValidMove(Board)
    /\ ~IsGameOver(Board).ret
    /\ ~GameOver

(* C17: Board.Clone returns a board equal to the original in grid,         *)
(* CurrentPlayer, BlackCnt and WhiteCnt; afterwards no MakeMove on the     *)
(* clone changes the original, and none on the original changes the clone. *)
C17_CloneIsIndependent ==
    [][/\ CallClone =>
             /\ Deref(heap', clone') = Deref(heap, original)
             /\ Deref(heap', original') = Deref(heap, original)
       /\ \A rc \in Inputs :
             /\ (clone # NoBoard /\ MoveOriginal(rc[1], rc[2])) =>
                   Deref(heap', clone') = Deref(heap, clone)
             /\ MoveClone(rc[1], rc[2]) =>
                   Deref(heap', original') = Deref(heap, original)]_cvars

(* both boards have been played on since the call and differ *)
C17_Witness ==
    /\ clone # NoBoard
    /\ MovesOn(heap, original) = 2
    /\ MovesOn(heap, clone) = 2
    /\ Deref(heap, original).Cells[2][3] = Black
    /\ Deref(heap, clone).Cells[2][3] = Empty
    /\ Deref(heap, clone).Cells[4][5] = Black

(* C18: for every difficulty and every board, Player.GetMove leaves the   *)
(* board it was given as it was (grid, counts, CurrentPlayer) and makes no *)
(* call of MakeMove or Pass on the session.                                *)
C18_GetMoveLeavesBoard ==
    [][last'.op = "GetMove" =>
          /\ Board'.Cells = Board.Cells
          /\ Board'.BlackCnt = Board.BlackCnt
          /\ Board'.WhiteCnt = Board.WhiteCnt
          /\ Board'.CurrentPlayer = Board.CurrentPlayer
          /\ UNCHANGED << History, GameOver, PassCount, Winner >>]_allvars

(* the Hard tier has searched below three or more moves and chosen one *)
C18_Witness ==
    /\ last.op = "GetMove"
    /\ last.Difficulty = Hard
    /\ last.Row >= 0
    /\ Len(GetValidMoves(Board)) >= 3

(* C19: for Easy, Medium, Hard and any other difficulty, GetMove returns   *)
(* (-1,-1) exactly when the side to move has no legal move, and otherwise  *)
(* an element of GetValidMoves of the board.                               *)
C19_GetMoveLegalOrNone ==
    last.op = "GetMove" =>
        /\ (last.Row = -1 /\ last.Col = -1)
              <=> ~HasLegal(Board.Cells, Board.CurrentPlayer)
        /\ HasLegal(Board.Cells, Board.CurrentPlayer) =>
              \E k \in 1..Len(GetValidMoves(Board)) :
                  GetValidMoves(Board)[k] = [Row |-> last.Row, Col |-> last.Col]

(* the Hard tier was asked on a board of an unfinished game whose side to  *)
(* move cannot move, and returned no move                                  *)
C19_Witness ==
    /\ last.op = "GetMove"
    /\ last.Difficulty = Hard
    /\ ~GameOver
    /\ ~HasLegal(Board.Cells, Board.CurrentPlayer)
    /\ last.Row = -1
    /\ last.Col = -1

(* the score the player of piece gives the board after the move (row, col) *)
ScoreAfter(b, piece, row, col) ==
    evaluatePosition([Difficulty |-> Medium, Piece |-> piece],
                     BoardMakeMove(b, row, col).board)

LegalCells(b) ==
    { rc \in (0..7) \X (0..7) : LegalFor(b.Cells, b.CurrentPlayer, rc[1], rc[2]) }

(* C20: on a board with a legal move the Medium tier returns a legal move  *)
(* whose resulting position has the greatest score for the player's own    *)
(* piece, and of the moves with that score the first in row-major order.   *)
C20_MediumFirstBest ==
    (last.op = "GetMove" /\ last.Difficulty = Medium /\ LegalCells(Board) # {}) =>
        /\ << last.Row, last.Col >> \in LegalCells(Board)
        /\ \A rc \in LegalCells(Board) :
              /\ ScoreAfter(Board, last.Piece, rc[1], rc[2])
                    <= ScoreAfter(Board, last.Piece, last.Row, last.Col)
              /\ ScoreAfter(Board, last.Piece, rc[1], rc[2])
                    = ScoreAfter(Board, last.Piece, last.Row, last.Col)
                 => last.Row * 8 + last.Col <= rc[1] * 8 + rc[2]

(* mid-game, the Medium player of the piece that is not to move was asked, *)
(* and another legal move has the same, greatest, score as the one chosen  *)
C20_Witness ==
    /\ last.op = "GetMove"
    /\ last.Difficulty = Medium
    /\ Len(History) > 0
    /\ last.Piece # Board.CurrentPlayer
    /\ \E rc \in LegalCells(Board) :
          /\ rc # << last.Row, last.Col >>
          /\ ScoreAfter(Board, last.Piece, rc[1], rc[2])
                = ScoreAfter(Board, last.Piece, last.Row, last.Col)

SetMax(S) == CHOOSE x \in S : \A y \in S : y <= x

SetMin(S) == CHOOSE x \in S : \A y \in S : x <= y

RECURSIVE LookaheadValue(_, _, _, _)
(* the value, for the player of piece, of the board b looked at `plies`    *)
(* moves deep: the score of b itself when plies = 0 or the side to move    *)
(* has no legal move, else the greatest (least, on a minimizing ply) value *)
(* of the boards one legal move away looked at one ply less deep           *)
LookaheadValue(b, piece, plies, maximizing) ==
    IF plies = 0 \/ LegalCells(b) = {}
    THEN evaluatePosition([Difficulty |-> Hard, Piece |-> piece], b)
    ELSE LET below == { LookaheadValue(BoardMakeMove(b, rc[1], rc[2]).board,
                                       piece, plies - 1, ~maximizing) :
                           rc \in LegalCells(b) }
         IN  IF maximizing THEN SetMax(below) ELSE SetMin(below)

(* the legal cell of b whose board has the greatest value when no position *)
(* more than `plies` moves ahead of b is looked at, the first in row-major *)
(* order of those                                                          *)
LookaheadChoice(b, piece, plies) ==
    LET value == [rc \in LegalCells(b) |->
                     LookaheadValue(BoardMakeMove(b, rc[1], rc[2]).board,
                                    piece, plies - 1, FALSE)]
        best == SetMax({ value[rc] : rc \in LegalCells(b) })
    IN  CHOOSE rc \in LegalCells(b) :
            /\ value[rc] = best
            /\ \A o \in LegalCells(b) :
                  value[o] = best => rc[1] * 8 + rc[2] <= o[1] * 8 + o[2]

MovesOf(p, h, hb) == { << r.Row, r.Col >> : r \in GetMove(p, h, hb) }

CellsOf(cells, p) == { rc \in (0..7) \X (0..7) : cells[rc[1]][rc[2]] = p }

RECURSIVE WeightOf(_)
(* the table weights of the cells of S, added up *)
WeightOf(S) ==
    IF S = {} THEN 0
    ELSE LET rc == CHOOSE x \in S : TRUE
         IN  weights[rc[1] + 1][rc[2] + 1] + WeightOf(S \ {rc})

(* C23: the score computed for Black is the negation of the score computed *)
(* for White: every occupied cell adds its weight to its owner's score and *)
(* takes it from the other side's, Empty cells add nothing.                *)
C23_EvaluatorAntisymmetric ==
    /\ evaluatePosition([Difficulty |-> Medium, Piece |-> Black], Board)
          = WeightOf(CellsOf(Board.Cells, Black)) - WeightOf(CellsOf(Board.Cells, White))
    /\ evaluatePosition([Difficulty |-> Medium, Piece |-> White], Board)
          = WeightOf(CellsOf(Board.Cells, White)) - WeightOf(CellsOf(Board.Cells, Black))
    /\ evaluatePosition([Difficulty |-> Medium, Piece |-> Black], Board)
          = 0 - evaluatePosition([Difficulty |-> Medium, Piece |-> White], Board)

(* a board with a corner taken, pieces of both sides and a score for Black *)
(* that is not 0                                                           *)
C23_Witness ==
    /\ Board.Cells[0][0] = Black
    /\ Board.WhiteCnt > 10
    /\ Empties(Board) > 0
    /\ evaluatePosition([Difficulty |-> Medium, Piece |-> Black], Board) > 0

(* C24: a fresh board (the board of NewGame) has exactly 4 occupied cells, *)
(* (3,3) and (4,4) White, (3,4) and (4,3) Black, BlackCnt = WhiteCnt = 2,  *)
(* CurrentPlayer = Black, and GetValidMoves returns exactly the moves      *)
(* (2,3), (3,2), (4,5), (5,4).                                             *)
C24_FreshBoard ==
    last.op = "NewGame" =>
        /\ CellsOf(Board.Cells, White) = { <<3, 3>>, <<4, 4>> }
        /\ CellsOf(Board.Cells, Black) = { <<3, 4>>, <<4, 3>> }
        /\ Cardinality(CellsOf(Board.Cells, Empty)) = 60
        /\ Board.BlackCnt = 2
        /\ Board.WhiteCnt = 2
        /\ Board.CurrentPlayer = Black
        /\ GetValidMoves(Board) =
              << [Row |-> 2, Col |-> 3], [Row |-> 3, Col |-> 2],
                 [Row |-> 4, Col |-> 5], [Row |-> 5, Col |-> 4] >>

(* the session as NewGame made it *)
C24_Witness ==
    /\ last.op = "NewGame"
    /\ History = << >>
    /\ Board.Size = 8

(* C25: from the opening position Black's move at (2,3) succeeds and       *)
(* leaves (2,3) Black, (3,3) flipped to Black, every other cell as it was, *)
(* BlackCnt = 4, WhiteCnt = 1 and CurrentPlayer = White.                   *)
C25_OpeningMoveD3 ==
    [][(History = << >> /\ GameMakeMove(2, 3)) =>
          /\ last'.err = ErrNil
          /\ Board'.Cells =
                [i \in 0..7 |-> [j \in 0..7 |->
                    IF << i, j >> \in { <<2, 3>>, <<3, 3>> } THEN Black
                    ELSE Board.Cells[i][j]]]
          /\ Board.Cells[3][3] = White
          /\ Board.Cells[2][3] = Empty
          /\ Board'.BlackCnt = 4
          /\ Board'.WhiteCnt = 1
          /\ Board'.CurrentPlayer = White]_allvars

(* Black has opened at (2,3) *)
C25_Witness ==
    /\ Len(History) = 1
    /\ History[1].Position = [Row |-> 2, Col |-> 3]
    /\ last = Call("MakeMove", ErrNil)

(* C26: move notation round-trips: for row and col in 0..7, ParseMove of   *)
(* FormatMove(row, col) returns (row, col) and no error; FormatMove(-1,-1) *)
(* returns "Pass".                                                         *)
C26_NotationRoundTrip ==
    /\ [](last = [op |-> "FormatMove", row |-> -1, col |-> -1,
                  ret |-> << "P", "a", "s", "s" >>]
          \/ ~(last.op = "FormatMove" /\ last.row = -1 /\ last.col = -1))
    /\ [][(ParseFormatted /\ last.row \in 0..7 /\ last.col \in 0..7) =>
             /\ last'.row = last.row
             /\ last'.col = last.col
             /\ last'.err = ErrNil]_allvars

(* the string FormatMove wrote for row 7, column 4 has been parsed *)
C26_Witness ==
    /\ last.op = "ParseMove"
    /\ last.move = << "E", "8" >>
    /\ last.row = 7
    /\ last.col = 4

(* C27: ParseMove accepts the word pass in every mix of upper and lower    *)
(* case and returns (-1,-1) and no error.                                  *)
C27_PassAnyCase ==
    (last.op = "ParseMove" /\ last.move \in PassSpellings) =>
        (last.row = -1 /\ last.col = -1 /\ last.err = ErrNil)

(* C28: after Reset, called in any state of the session, the session is    *)
(* the one NewGame makes: the opening board with Black to move and two     *)
(* pieces each, an empty History, GameOver false, PassCount 0 and Winner   *)
(* Empty.                                                                  *)
C28_ResetIsFresh ==
    [][last'.op = "Reset" =>
          /\ Board'.Size = 8
          /\ CellsOf(Board'.Cells, White) = { <<3, 3>>, <<4, 4>> }
          /\ CellsOf(Board'.Cells, Black) = { <<3, 4>>, <<4, 3>> }
          /\ Cardinality(CellsOf(Board'.Cells, Empty)) = 60
          /\ Board'.CurrentPlayer = Black
          /\ Board'.BlackCnt = 2
          /\ Board'.WhiteCnt = 2
          /\ History' = << >>
          /\ GameOver' = FALSE
          /\ PassCount' = 0
          /\ Winner' = Empty]_allvars

(* Reset has been called *)
C28_Witness ==
    /\ last = Call("Reset", ErrNil)
    /\ History = << >>
    /\ ~GameOver

(* C30: GetValidMoves returns exactly the positions for which IsValidMove  *)
(* holds for the side to move, each once, in row-major order (rows         *)
(* ascending, columns ascending within a row), and HasValidMove is true    *)
(* exactly when that sequence is not empty.                                *)
C30_ValidMovesListing ==
    LET ms == GetValidMoves(Board)
    IN  /\ { << ms[i].Row, ms[i].Col >> : i \in 1..Len(ms) } =
              { rc \in Coords \X Coords : IsValidMove(Board, rc[1], rc[2]) }
        /\ \A i \in 1..(Len(ms) - 1) :
              \/ ms[i].Row < ms[i + 1].Row
              \/ ms[i].Row = ms[i + 1].Row /\ ms[i].Col < ms[i + 1].Col
        /\ HasValidMove(Board) <=> (ms # << >>)

(* a position in play with several moves, two of them in one row and two   *)
(* in different rows                                                       *)
C30_Witness ==
    LET ms == GetValidMoves(Board)
    IN  /\ Len(History) >= 2
        /\ Len(ms) >= 4
        /\ \E i \in 1..(Len(ms) - 1) : ms[i].Row = ms[i + 1].Row
        /\ \E i \in 1..(Len(ms) - 1) : ms[i].Row < ms[i + 1].Row

(* C29: in a game against the computer in the window, a player who cannot  *)
(* move has the turn skipped: whenever the window is in StateInGame, the   *)
(* session is not over and the side to move, human or computer, has no     *)
(* legal move, the update loop eventually performs a pass (unless the      *)
(* player leaves the game before).                                         *)
C29_StuckSidePasses ==
    (/\ gui.gameState = StateInGame
     /\ gui.gameMode # ModeHumanVsHuman
     /\ ~GameOver
     /\ ~HasValidMove(Board))
        ~> (last = Call("Pass", ErrNil) \/ gui.gameState # StateInGame)

(* the count field of side p *)
CntOf(b, p) == IF p = Black THEN b.BlackCnt ELSE b.WhiteCnt

After(b, rc) == BoardMakeMove(b, rc[1], rc[2]).board

(* the index of the first greatest entry of a sequence of scores *)
FirstGreatest(scores) ==
    CHOOSE k \in 1..Len(scores) :
        /\ \A j \in 1..Len(scores) : scores[j] <= scores[k]
        /\ \A j \in 1..(k - 1) : scores[j] < scores[k]

(* the score minimax returns to getHardMove for the k-th legal move of b *)
PrunedScore(b, piece, k) ==
    minimax([Difficulty |-> Hard, Piece |-> piece],
            MoveOnCopy(Alloc(<< >>, b).heap, Alloc(<< >>, b).board,
                       GetValidMoves(b)[k]),
            HardDepth, MinInt32, MaxInt32, FALSE).score

(* the value of the same move under minimax without any cutoff *)
PlainScore(b, piece, k) ==
    LookaheadValue(After(b, << GetValidMoves(b)[k].Row, GetValidMoves(b)[k].Col >>),
                   piece, HardDepth, FALSE)

(* C32: alpha-beta pruning does not change the Hard tier's result: for     *)
(* every legal move the score the pruned search returns to getHardMove is  *)
(* the value of plain minimax without cutoff at the same depth with the    *)
(* same evaluation, and the move returned is the first, in row-major       *)
(* order, whose plain value is the greatest.                               *)
C32_PruningKeepsResult ==
    (last.op = "GetMove" /\ last.Difficulty = Hard /\ HasValidMove(Board)) =>
        LET moves == GetValidMoves(Board)
            plain == [k \in 1..Len(moves) |-> PlainScore(Board, last.Piece, k)]
        IN  /\ \A k \in 1..Len(moves) :
                  PrunedScore(Board, last.Piece, k) = plain[k]
            /\ [Row |-> last.Row, Col |-> last.Col] = moves[FirstGreatest(plain)]

(* the Hard tier has searched a tree in which a cutoff happens: below a    *)
(* legal move the opponent has two replies, and after the second of them   *)
(* the first of two or more moves is already worth as much as the first    *)
(* reply, so the moves after it are not searched                           *)
C32_Witness ==
    /\ last.op = "GetMove"
    /\ last.Difficulty = Hard
    /\ \E m \in LegalCells(Board) :
          LET replies == GetValidMoves(After(Board, m))
          IN  /\ Len(replies) >= 2
              /\ LET second == After(After(Board, m),
                                     << replies[2].Row, replies[2].Col >>)
                     moves == GetValidMoves(second)
                 IN  /\ Len(moves) >= 2
                     /\ LookaheadValue(
                            After(second, << moves[1].Row, moves[1].Col >>),
                            last.Piece, HardDepth - 2, FALSE)
                          >= LookaheadValue(
                                After(After(Board, m),
                                      << replies[1].Row, replies[1].Col >>),
                                last.Piece, HardDepth - 1, TRUE)

(* the calls of minimax made below the k-th legal move of b, each as the   *)
(* pair of the side to move on its board and its maximizing argument       *)
SeenBelow(b, piece, k) ==
    minimax([Difficulty |-> Hard, Piece |-> piece],
            MoveOnCopy(Alloc(<< >>, b).heap, Alloc(<< >>, b).board,
                       GetValidMoves(b)[k]),
            HardDepth, MinInt32, MaxInt32, FALSE).seen

(* C33: when the Hard tier is asked for a move on a board whose            *)
(* CurrentPlayer is the agent's Piece, every call of minimax made by the   *)
(* search is maximizing exactly when the side to move on its board is the  *)
(* agent's Piece, and minimizing exactly when it is the opponent's.        *)
C33_MaximizingIffOwnPly ==
    (last.op = "GetMove" /\ last.Difficulty = Hard
        /\ last.Piece = Board.CurrentPlayer) =>
        \A k \in 1..Len(GetValidMoves(Board)) :
            \A node \in SeenBelow(Board, last.Piece, k) :
                /\ node[1] \in {Black, White}
                /\ node[2] <=> (node[1] = last.Piece)

(* the Hard tier was asked on its own turn and its search made calls for   *)
(* both sides: minimizing ones for the opponent, maximizing ones for the   *)
(* agent                                                                   *)
C33_Witness ==
    /\ last.op = "GetMove"
    /\ last.Difficulty = Hard
    /\ last.Piece = Board.CurrentPlayer
    /\ HasValidMove(Board)
    /\ SeenBelow(Board, last.Piece, 1)
          = { << Other(last.Piece), FALSE >>, << last.Piece, TRUE >> }

(* the static score of the cells for the player of piece: the weights of   *)
(* its own cells less the weights of the other side's                      *)
StaticScore(cells, piece) ==
    WeightOf(CellsOf(cells, piece)) - WeightOf(CellsOf(cells, Other(piece)))

(* minimax called for the agent of piece on the board b *)
SearchOf(b, piece, depth, maximizing) ==
    minimax([Difficulty |-> Hard, Piece |-> piece],
            Alloc(<< >>, b), depth, MinInt32, MaxInt32, maximizing)

(* C34: in the search of the Hard tier a node is a leaf when the remaining *)
(* depth is 0, when neither side has a legal move, or when the side to     *)
(* move has no legal move (the search does not go on through a pass), and  *)
(* only then; a leaf is scored by the static evaluator for the root        *)
(* agent's Piece, whichever side is to move on it. Stated of the board on  *)
(* which the Hard tier was consulted, taken as a node with either side to  *)
(* move, at depth 0 and at depth HardDepth.                                *)
C34_LeavesAndTheirScore ==
    (last.op = "GetMove" /\ last.Difficulty = Hard) =>
        \A mover \in {Black, White} : \A depth \in {0, HardDepth} :
          \A maximizing \in BOOLEAN :
            LET node == AsPlayer(Board, mover)
                res == SearchOf(node, last.Piece, depth, maximizing)
                leaf == res.seen = { << mover, maximizing >> }
            IN  /\ leaf <=> (depth = 0 \/ ~HasLegal(Board.Cells, mover))
                /\ leaf => res.score = StaticScore(Board.Cells, last.Piece)

(* the Hard tier was consulted on a board on which the side to move has no *)
(* legal move while the other side has one, and pieces of both colours     *)
(* carry weight                                                            *)
C34_Witness ==
    /\ last.op = "GetMove"
    /\ last.Difficulty = Hard
    /\ ~HasLegal(Board.Cells, Board.CurrentPlayer)
    /\ HasLegal(Board.Cells, Other(Board.CurrentPlayer))
    /\ StaticScore(Board.Cells, last.Piece) # 0

(* C35: in every session state reachable from NewGame by MakeMove, Pass    *)
(* and Reset, PassCount is 0 or 1; a successful Pass is never immediately  *)
(* followed by another successful Pass (the call before it that succeeded  *)
(* was not a Pass), so the session is never ended by the test              *)
(* PassCount >= 2: whenever it is over, neither side has a legal move.     *)
C35_AtMostOnePass ==
    /\ [](PassCount \in {0, 1})
    /\ [](GameOver => IsGameOver(Board).ret)
    /\ [][(last'.op = "Pass" /\ last'.err = ErrNil)
            => /\ ~LastIsPass
               /\ PassCount = 0
               /\ PassCount' = 1
               /\ ~GameOver']_vars

(* after a successful Pass the other side has asked to pass as well and    *)
(* has been refused                                                        *)
C35_Witness ==
    /\ last = [op |-> "Pass", err |-> ErrCannotPass]
    /\ LastIsPass
    /\ PassCount = 1
    /\ ~GameOver

(* the entries of History that are placements *)
Placements == Cardinality({ i \in 1..Len(History) : History[i].Position # PassPosition })

(* the placements a board has room for *)
MaxPlacements == BoardSize * BoardSize - CountOf(NewBoard.Cells, Black)
                                       - CountOf(NewBoard.Cells, White)

(* what is left of a game: two for every empty cell, one for the pass that *)
(* may still come before the next placement                                *)
Rank == 2 * Empties(Board) + 1 - PassCount

(* the cells the players of SpecPlay may name in their next call *)
NextInputs ==
    IF Len(History) < Len(Opening) THEN { Opening[Len(History) + 1] } ELSE LateInputs

(* C36: every game ends. Any sequence of successful MakeMove and Pass      *)
(* calls is finite (each of them lowers Rank, which never leaves           *)
(* 0..2 * MaxPlacements + 1) and, when the players go on as long as a call *)
(* can succeed, reaches GameOver = true, after at most 60 placements. As   *)
(* long as the session is not over some call succeeds: a placement, or the *)
(* Pass of a side that has no legal move.                                  *)
C36_EveryGameEnds ==
    /\ <>GameOver
    /\ [](~GameOver => \/ ~HasValidMove(Board)
                       \/ \E rc \in NextInputs : BoardMakeMove(Board, rc[1], rc[2]).ok)
    /\ [](Placements <= MaxPlacements /\ MaxPlacements = 60)
    /\ [](Placements = MaxPlacements => GameOver)
    /\ [](Rank \in 0..(2 * MaxPlacements + 1))
    /\ [][Len(History') = Len(History) + 1 => Rank' < Rank]_vars

(* a game that ended with the last of the 60 placements, one side having   *)
(* passed on the way                                                       *)
C36_Witness ==
    /\ GameOver
    /\ Placements = MaxPlacements
    /\ Len(History) > Placements

(* C37: in every session state reachable from NewGame or Reset by MakeMove *)
(* and Pass, CurrentPlayer is Black exactly when len(History) is even; so  *)
(* the call that appends the entry at index i (from 0) is made by Black    *)
(* exactly when i is even, and it hands the turn to the other side.        *)
C37_BlackOnEvenLength ==
    /\ [](Board.CurrentPlayer = Black <=> Len(History) % 2 = 0)
    /\ [](Board.CurrentPlayer \in {Black, White})
    /\ [][Len(History') = Len(History) + 1
            => /\ Board.CurrentPlayer = Black <=> Len(History) % 2 = 0
               /\ Board'.CurrentPlayer = Other(Board.CurrentPlayer)
               /\ History'[Len(History')].Position = PassPosition
                     => History'[Len(History')].Piece = Board.CurrentPlayer]_vars

(* Black has just passed at an even index after placements of both sides:  *)
(* White is to move and History has an odd length                          *)
C37_Witness ==
    /\ last = [op |-> "Pass", err |-> ErrNil]
    /\ LastIsPass
    /\ Len(History) > 2
    /\ Len(History) % 2 = 1
    /\ Board.CurrentPlayer = White

(* the side that performed an entry of History: Game.Pass records the      *)
(* piece of the side that passes, Game.MakeMove the piece of the side to   *)
(* move after the placement                                                *)
PerformedBy(move) ==
    IF move.Position = PassPosition THEN move.Piece ELSE Other(move.Piece)

(* C38: the history panel of the window shows every displayed entry in the *)
(* column of the side that performed it, for every length of History,      *)
(* lengths above the window of 16 entries included: each of the last 16    *)
(* entries (all of them when there are fewer) is drawn once, under "Black" *)
(* when Black performed it and under "White" when White did.               *)
C38_PanelColumns ==
    LET rows == drawHistoryPanel(History)
        shown == { i \in 0..(Len(History) - 1) : i >= Len(History) - maxMoves }
    IN  /\ \A i \in shown : \E n \in 1..Len(rows) :
              \/ rows[n].Black.index = i /\ PerformedBy(History[i + 1]) = Black
              \/ rows[n].White.index = i /\ PerformedBy(History[i + 1]) = White
        /\ \A n \in 1..Len(rows) :
              /\ rows[n].Black.index \in shown
              /\ rows[n].White.index \in shown \cup { NoText.index }

====
